---- MODULE Spec2Model ----
(***************************************************************************)
(* A model of the rendering core of RenderFrameworkRIS:                    *)
(*   - the BVH of src/src/bvh.cpp (pre-split, SAH build, fix_refs,         *)
(*     optimize, traverse),                                                *)
(*   - the tile scheduler of src/src/renderer.h,                           *)
(*   - the main loop and the image output of src/src/main.cpp,             *)
(*   - the path tracer and the photon mapper of src/src/algorithms.        *)
(* Each part has its own specifications (SpecBvh, SpecPreSplit, SpecTasks, *)
(* SpecDeep; SpecTiles; SpecMain, SpecLoop; SpecPaths, SpecEye,            *)
(* SpecDiffuse, SpecPpm, SpecPass); the variables of the other parts are   *)
(* frozen at their idle value.                                             *)
(*                                                                         *)
(* Numbers.  A float is modelled by an integer (scene and ray coordinates  *)
(* are small integers, on which the float operations of the code are       *)
(* exact) or by one of the three IEEE specials PInf, NInf, NaN.            *)
(***************************************************************************)
EXTENDS Integers, Sequences, FiniteSets, TLC

\* ------------------------------------------------------------------ bounds
\* Number of catalogue scenes the BVH is built for.
MaxScene == 10
\* Largest image side, in pixels, of the tile scheduler's specification.
MaxSide == 4
\* Side of a tile, in pixels: the scaled stand-in for default_tile_width and
\* default_tile_height.
MaxTile == 2
\* Number of worker threads that run tiles.
MaxWorkers == 2
\* Number of render calls of the tile scheduler's specification.
MaxIter == 2
\* Number of iterations of the main loop.
MaxFrames == 3
\* Largest number of events one call of handle_events finds in the queue.
MaxEvents == 2

\* ------------------------------------------------------------ float model
PInf == 2^20
NInf == -(2^20)
NaN  == 2^21
\* FLT_MAX, the default ray.tmax: finite and above every finite value used.
FltMax == 2^19

IsFinite(a) == a # PInf /\ a # NInf /\ a # NaN

Sign(a) == IF a > 0 THEN 1 ELSE IF a < 0 THEN -1 ELSE 0

FNeg(a) == IF a = NaN THEN NaN ELSE -a

\* a * b in IEEE arithmetic: inf * 0 is NaN.
FMul(a, b) ==
    IF a = NaN \/ b = NaN THEN NaN
    ELSE IF IsFinite(a) /\ IsFinite(b) THEN a * b
    ELSE IF a = 0 \/ b = 0 THEN NaN
    ELSE IF Sign(a) * Sign(b) > 0 THEN PInf ELSE NInf

\* a + b in IEEE arithmetic: inf + (-inf) is NaN.
FAdd(a, b) ==
    IF a = NaN \/ b = NaN THEN NaN
    ELSE IF IsFinite(a) /\ IsFinite(b) THEN a + b
    ELSE IF IsFinite(a) THEN b
    ELSE IF IsFinite(b) THEN a
    ELSE IF a = b THEN a ELSE NaN

\* 1.0f / d for a direction component d in {-1, 0, 1}: 1/0 is +inf.
FRcp(d) == IF d = 0 THEN PInf ELSE d

\* a < b on floats: false when either is NaN.
FLess(a, b) == a # NaN /\ b # NaN /\ a < b
FLeq(a, b) == a # NaN /\ b # NaN /\ a <= b

\* std::max(a, b) = (a < b) ? b : a  and  std::min(a, b) = (b < a) ? b : a.
StdMax(a, b) == IF FLess(a, b) THEN b ELSE a
StdMin(a, b) == IF FLess(b, a) THEN b ELSE a

fast_multiply_add(a, b, c) == FAdd(FMul(a, b), c)

\* ---------------------------------------------------------------- vectors
Min2(a, b) == IF a < b THEN a ELSE b
Max2(a, b) == IF a > b THEN a ELSE b

VAdd(a, b) == <<a[1] + b[1], a[2] + b[2], a[3] + b[3]>>
VSub(a, b) == <<a[1] - b[1], a[2] - b[2], a[3] - b[3]>>
VMin(a, b) == <<Min2(a[1], b[1]), Min2(a[2], b[2]), Min2(a[3], b[3])>>
VMax(a, b) == <<Max2(a[1], b[1]), Max2(a[2], b[2]), Max2(a[3], b[3])>>
Dot(a, b) == a[1] * b[1] + a[2] * b[2] + a[3] * b[3]
Cross(a, b) == <<a[2] * b[3] - a[3] * b[2],
                 a[3] * b[1] - a[1] * b[3],
                 a[1] * b[2] - a[2] * b[1]>>
\* (a + b) * 0.5f; exact because the coordinates used are multiples of 2^k.
Midpoint(a, b) == <<(a[1] + b[1]) \div 2, (a[2] + b[2]) \div 2, (a[3] + b[3]) \div 2>>

\* ------------------------------------------------------------------ boxes
BBox(lo, hi) == [min |-> lo, max |-> hi]
\* BBox::empty(): min = +FLT_MAX, max = -FLT_MAX.
EmptyBBox == BBox(<<FltMax, FltMax, FltMax>>, <<-FltMax, -FltMax, -FltMax>>)
ExtendBB(a, b) == BBox(VMin(a.min, b.min), VMax(a.max, b.max))
ExtendPt(a, p) == BBox(VMin(a.min, p), VMax(a.max, p))
PointBBox(p) == BBox(p, p)
Extent(bb, k) == Max2(bb.max[k] - bb.min[k], 0)
volume(bb) == Extent(bb, 1) * Extent(bb, 2) * Extent(bb, 3)
half_area(bb) ==
    Extent(bb, 1) * (Extent(bb, 2) + Extent(bb, 3)) + Extent(bb, 2) * Extent(bb, 3)
Contains(outer, inner) ==
    \A k \in 1..3 : outer.min[k] <= inner.min[k] /\ inner.max[k] <= outer.max[k]

\* ----------------------------------------------------------------- scenes
\* A triangle is <<v0, v1, v2>>, a vertex <<x, y, z>>.  The coordinates are
\* multiples of 8, so that the midpoints of three nested bisections are exact.
TriFlatA == << <<0, 0, 0>>, <<8, 0, 0>>, <<0, 8, 0>> >>
TriFlatB == << <<0, 0, 0>>, <<8, 0, 0>>, <<8, 8, 0>> >>
TriFlatC == << <<40, 0, 0>>, <<48, 0, 0>>, <<40, 8, 0>> >>
TriFlatD == << <<0, 24, 16>>, <<8, 24, 16>>, <<0, 32, 16>> >>
TriFlatE == << <<40, 24, 16>>, <<48, 24, 16>>, <<40, 32, 16>> >>
TriFlatF == << <<16, 8, 32>>, <<24, 8, 32>>, <<16, 16, 32>> >>
TriFlatG == << <<24, 16, 8>>, <<32, 16, 8>>, <<24, 24, 8>> >>
\* A sliver in the plane x = y whose longest edge is the diagonal of the scene.
TriSliver == << <<0, 0, 0>>, <<32, 32, 32>>, <<16, 16, 8>> >>

\* A triangle whose two halves, cut at the midpoint of its longest edge, have
\* boxes that overlap so much that the builder keeps them in one leaf.
TriWide == << <<0, 0, 0>>, <<32, 32, 32>>, <<32, 0, 0>> >>
\* An axis-aligned right triangle in a plane z = const.
FlatTri(x, y, z, a, b) == << <<x, y, z>>, <<x + a, y, z>>, <<x, y + b, z>> >>
\* A scene of unequal triangles on two levels, where the reinsertion of
\* optimize moves a subtree to another place of the tree.
SceneShelves ==
    << FlatTri(32, 8, 8, 8, 8), FlatTri(24, 16, 8, 16, 8), FlatTri(32, 16, 0, 40, 8),
       FlatTri(56, 16, 8, 40, 24), FlatTri(32, 0, 8, 8, 8), FlatTri(32, 8, 0, 8, 8),
       FlatTri(40, 0, 0, 8, 8) >>

Catalogue ==
    << <<TriFlatA>>,
       <<TriFlatB, TriFlatA>>,
       <<TriFlatA, TriFlatC>>,
       <<TriSliver, TriFlatC>>,
       <<TriFlatA, TriFlatA, TriFlatC>>,
       <<TriWide, FlatTri(160, 0, 0, 8, 8)>>,
       <<TriFlatC, TriSliver, TriFlatD>>,
       <<TriFlatB, TriFlatC, TriFlatD, TriSliver>>,
       SceneShelves,
       <<TriFlatA, TriFlatC, TriFlatD, TriFlatE, TriFlatF, TriFlatG>>,
       <<TriFlatA, TriFlatB, TriFlatC, TriFlatD, TriFlatE, TriFlatF, TriFlatG>> >>

SceneIds == 1..Min2(MaxScene, Len(Catalogue))

\* ------------------------------------------------------------------ state
VARIABLES
    \* --- BVH (src/src/bvh.cpp)
    bphase,     \* position of Bvh::build / Bvh::traverse
    scene,      \* the source triangles (verts and indices of Bvh::build)
    num_refs,   \* the shared reference counter of pre_split
    stacks,     \* per source triangle: the stack of try_split (<<>> when done)
    bboxes,     \* per reference: bounding box
    centers,    \* per reference: 3 * centroid (the order of the centroids)
    refs,       \* per reference: source triangle
    prims,      \* the three axis arrays; prims[1] is prim_ids
    nodes,      \* the node array
    num_nodes,  \* Bvh::num_nodes, the builder's node_count
    bstack,     \* node ids whose BvhBuilder::build call is still to run
    btasks,     \* the builder tasks of the parallel build, and who built which node
    parents,    \* the parents array of optimize
    opt,        \* the loop state of optimize
    ray,        \* the ray being traversed
    trav,       \* the loop state of traverse
    hit,        \* the Hit of the closest-hit traversal
    hit_any,    \* the Hit of the any-hit traversal
    \* --- tile scheduler (src/src/renderer.h)
    tiles,
    \* --- main loop (src/src/main.cpp)
    mainst,
    \* --- renderers (src/src/algorithms, src/src/materials.h, src/src/random.h)
    rend

bvhVars == <<bphase, scene, num_refs, stacks, bboxes, centers, refs, prims, nodes,
             num_nodes, bstack, btasks, parents, opt, ray, trav, hit, hit_any>>
vars == <<bvhVars, btasks, tiles, mainst, rend>>

\* ------------------------------------------------------- Bvh::build, part 1
NumTris == Len(scene)
\* auto max_refs = num_tris * 3 / 2;
MaxRefs == (NumTris * 3) \div 2
\* Source triangle i (0-based, as in the code).
SrcTri(i) == scene[i + 1]

\* One iteration of the loop over the triangles: the box extended by the three
\* vertices.
ExtendTri(bb, t) == ExtendPt(ExtendPt(ExtendPt(bb, t[1]), t[2]), t[3])
\* The box after n iterations (the box of the iteration before is bound as a
\* value, then extended).
RECURSIVE GlobalBBoxUpTo(_)
GlobalBBoxUpTo(n) ==
    IF n = 0 THEN EmptyBBox
    ELSE CHOOSE bb \in {ExtendTri(prev, scene[n]) : prev \in {GlobalBBoxUpTo(n - 1)}} : TRUE
GlobalBBox == GlobalBBoxUpTo(NumTris)

stack_size == 32
\* volume(global_bbox) / float(1 << 14) < max_vol, without the division.
SplitShift == 2^14
AboveThreshold(max_vol) == max_vol * SplitShift > volume(GlobalBBox)

Unset == [unset |-> TRUE]

EdgeVolumes(tri) ==
    [k \in 1..3 |-> volume(ExtendPt(PointBBox(tri[k]), tri[(k % 3) + 1]))]
Max3(v) == Max2(v[1], Max2(v[2], v[3]))
\* A box that holds the first vertex only.
FirstVertexBBox(tri) == PointBBox(tri[1])
TriBBox(tri) == BBox(VMin(tri[1], VMin(tri[2], tri[3])), VMax(tri[1], VMax(tri[2], tri[3])))
TriCenter(tri) == VAdd(tri[1], VAdd(tri[2], tri[3]))

\* One iteration of the while loop of try_split for source triangle ref.
TrySplitStep(ref) ==
    /\ bphase = "presplit"
    /\ stacks[ref] # <<>>
    /\ LET st == stacks[ref]
           sp == Len(st)
           top == st[sp]
           vol == EdgeVolumes(top.tri)
           max_vol == Max3(vol)
           wants == AboveThreshold(max_vol) /\ sp < stack_size
           j == num_refs
       IN /\ num_refs' = IF wants THEN num_refs + 1 ELSE num_refs
          /\ IF wants /\ j < MaxRefs
             THEN LET k == CHOOSE k \in 1..3 :
                            /\ vol[k] = max_vol
                            /\ \A h \in 1..(k - 1) : vol[h] # max_vol
                      l == (k % 3) + 1
                      m == Midpoint(top.tri[k], top.tri[l])
                      other == [tri |-> [top.tri EXCEPT ![l] = m], i |-> j]
                      top2 == [tri |-> [top.tri EXCEPT ![k] = m], i |-> top.i]
                  IN /\ stacks' = [stacks EXCEPT ![ref] =
                                       Append([st EXCEPT ![sp] = top2], other)]
                     /\ UNCHANGED <<bboxes, centers, refs>>
             ELSE /\ stacks' = [stacks EXCEPT ![ref] = SubSeq(st, 1, sp - 1)]
                  /\ centers' = [centers EXCEPT ![top.i] = TriCenter(top.tri)]
                  /\ bboxes' = [bboxes EXCEPT ![top.i] = TriBBox(top.tri)]
                  /\ refs' = [refs EXCEPT ![top.i] = ref]
    /\ UNCHANGED <<bphase, scene, prims, nodes, num_nodes, bstack, parents, opt,
                   ray, trav, hit, hit_any, btasks, tiles, mainst, rend>>

PreSplit == \E ref \in 0..(NumTris - 1) : TrySplitStep(ref)

\* return std::min(num_refs, max_refs);
NumRefs == Min2(num_refs, MaxRefs)

\* ------------------------------------------------ Bvh::build, top-down SAH
\* Arrays of references are sequences; At(a, i) is a[i] of the code.
At(a, i) == a[i + 1]

\* std::stable_sort of 0..n-1 by the centroid on one axis.
SortRank(n, axis, r) ==
    Cardinality({s \in 0..(n - 1) :
        \/ centers[s][axis] < centers[r][axis]
        \/ centers[s][axis] = centers[r][axis] /\ s < r})
StableSortByAxis(n, axis) ==
    [p \in 1..n |-> CHOOSE r \in 0..(n - 1) : SortRank(n, axis, r) = p - 1]

\* The box of the references a[from .. to-1].
RECURSIVE RangeBBox(_, _, _)
RangeBBox(a, from, to) ==
    IF from >= to THEN EmptyBBox
    ELSE CHOOSE bb \in {ExtendBB(prev, bboxes[At(a, to - 1)]) :
                           prev \in {RangeBBox(a, from, to - 1)}} : TRUE

\* costs[i] of the sweep from the left.
LeftCost(a, begin, i) == (i - begin + 1) * half_area(RangeBBox(a, begin, i + 1))
\* c of the sweep from the right, at split position i.
SplitCost(a, begin, end, i) ==
    LeftCost(a, begin, i - 1) + (end - i) * half_area(RangeBBox(a, i, end))

\* find_split: the sweep from the right keeps the first strict minimum, that is
\* the largest position among those of least cost.
BestPos(a, begin, end) ==
    CHOOSE i \in (begin + 1)..(end - 1) :
        \A h \in (begin + 1)..(end - 1) :
            \/ SplitCost(a, begin, end, i) < SplitCost(a, begin, end, h)
            \/ SplitCost(a, begin, end, i) = SplitCost(a, begin, end, h) /\ h <= i
SplitAt(a, begin, end, best) ==
    [split |-> best,
     cost |-> SplitCost(a, begin, end, best),
     bb |-> RangeBBox(a, best, end)]
find_split(a, begin, end) == SplitAt(a, begin, end, BestPos(a, begin, end))

\* The loop over the three axes keeps the first axis of least cost.
MinAxis(sp) ==
    CHOOSE x \in 1..3 :
        /\ \A h \in 1..3 : sp[x].cost <= sp[h].cost
        /\ \A h \in 1..(x - 1) : sp[h].cost > sp[x].cost
SplitOnAxis(sp, ax) ==
    [axis |-> ax, split |-> sp[ax].split, cost |-> sp[ax].cost, right |-> sp[ax].bb]
AxisSplits(begin, end) == [x \in 1..3 |-> find_split(prims[x], begin, end)]
PickSplit(sp) == SplitOnAxis(sp, MinAxis(sp))
BestSplit(begin, end) == PickSplit(AxisSplits(begin, end))

NodeBBox(n) == BBox(n.min, n.max)
\* bool is_leaf() const { return num_prims > 0; }
is_leaf(n) == n.num > 0
MakeNode(bb, child, num) == [min |-> bb.min, max |-> bb.max, child |-> child, num |-> num]

\* A side test that looks at the position only.
LeftOfSplitPos(ref, axis, split_pos, split_ref) == centers[ref][axis] <= split_pos
\* is_on_left_side of the split.
IsOnLeftSide(ref, axis, split_pos, split_ref) ==
    LET pos == centers[ref][axis]
    IN pos < split_pos \/ (pos = split_pos /\ ref <= split_ref)

\* std::stable_partition of a[begin .. end-1].
StablePartition(a, begin, end, axis, split_pos, split_ref) ==
    LET seg == SubSeq(a, begin + 1, end)
        L(r) == IsOnLeftSide(r, axis, split_pos, split_ref)
        R(r) == ~IsOnLeftSide(r, axis, split_pos, split_ref)
    IN SubSeq(a, 1, begin) \o SelectSeq(seg, L) \o SelectSeq(seg, R)
           \o SubSeq(a, end + 1, Len(a))

traversal_cost == 1
parallel_threshold == 1000

\* Bvh::build(global_bbox, bboxes, centers, num_refs) up to the first builder
\* call: the three sorts and the root.
BuildBegin ==
    /\ bphase = "presplit"
    /\ \A i \in 0..(NumTris - 1) : stacks[i] = <<>>
    /\ prims' = [x \in 1..3 |-> StableSortByAxis(NumRefs, x)]
    /\ nodes' = [i \in 0..(2 * NumRefs) |->
                    IF i = 0 THEN MakeNode(GlobalBBox, 0, NumRefs) ELSE Unset]
    /\ num_nodes' = 1
    /\ bstack' = <<0>>
    /\ bphase' = "build"
    /\ UNCHANGED <<scene, num_refs, stacks, bboxes, centers, refs, parents, opt,
                   ray, trav, hit, hit_any, btasks, tiles, mainst, rend>>

\* The two children of a split node and the order of the recursive calls: the
\* bigger child first, then the smaller one (no task is spawned below
\* parallel_threshold primitives).
BuildChildren(node_id, node, s, c, left, right) ==
    /\ num_nodes' = num_nodes + 2
    /\ nodes' = [nodes EXCEPT
           ![node_id] = [node EXCEPT !.child = c, !.num = -(s.axis - 1)],
           ![c] = left,
           ![c + 1] = right]
    /\ bstack' = << (IF right.num >= left.num THEN c + 1 ELSE c),
                    (IF right.num < left.num THEN c + 1 ELSE c) >> \o Tail(bstack)

\* The partition of the two other axes around the split reference.
BuildPartition(node_id, node, begin, end, s, axis1, axis2, split_ref, split_pos) ==
    /\ prims' = [prims EXCEPT
           ![axis1] = StablePartition(prims[axis1], begin, end,
                                      s.axis, split_pos, split_ref),
           ![axis2] = StablePartition(prims[axis2], begin, end,
                                      s.axis, split_pos, split_ref)]
    /\ BuildChildren(node_id, node, s, num_nodes,
                     MakeNode(RangeBBox(prims[s.axis], begin, s.split),
                              begin, s.split - begin),
                     MakeNode(s.right, s.split, end - s.split))

BuildSplitRef(node_id, node, begin, end, s, split_ref) ==
    BuildPartition(node_id, node, begin, end, s,
                   (s.axis % 3) + 1, ((s.axis + 1) % 3) + 1,
                   split_ref, centers[split_ref][s.axis])

\* The SAH test of the best split against the cost of the node as a leaf.
BuildSplit(node_id, node, begin, end, s) ==
    IF s.cost < ((end - begin) - traversal_cost) * half_area(NodeBBox(node))
    THEN BuildSplitRef(node_id, node, begin, end, s,
                       At(prims[s.axis], s.split - 1))
    ELSE /\ bstack' = Tail(bstack)
         /\ UNCHANGED <<prims, nodes, num_nodes>>

BuildRange(node_id, node, begin, end) ==
    IF end - begin <= 1
    THEN /\ bstack' = Tail(bstack)
         /\ UNCHANGED <<prims, nodes, num_nodes>>
    ELSE BuildSplit(node_id, node, begin, end, BestSplit(begin, end))

BuildNode(node_id, node) ==
    BuildRange(node_id, node, node.child, node.child + node.num)

\* One call of BvhBuilder::build(node_id), up to its recursive calls.
BuildStep ==
    /\ bphase = "build"
    /\ bstack # <<>>
    /\ BuildNode(Head(bstack), nodes[Head(bstack)])
    /\ UNCHANGED <<bphase, scene, num_refs, stacks, bboxes, centers, refs, parents,
                   opt, ray, trav, hit, hit_any, btasks, tiles, mainst, rend>>

\* The end of Bvh::build(global_bbox, ...): the node array is cut to num_nodes.
BuildFinish ==
    /\ bphase = "build"
    /\ bstack = <<>>
    /\ nodes' = [i \in 0..(num_nodes - 1) |-> nodes[i]]
    /\ bphase' = "fix"
    /\ UNCHANGED <<scene, num_refs, stacks, bboxes, centers, refs, prims, num_nodes,
                   bstack, parents, opt, ray, trav, hit, hit_any, btasks, tiles, mainst, rend>>

\* -------------------------------------------------------------- fix_refs
RECURSIVE InsertSorted(_, _)
InsertSorted(sq, x) ==
    IF sq = <<>> THEN <<x>>
    ELSE IF x < Head(sq) THEN <<x>> \o sq
    ELSE <<Head(sq)>> \o InsertSorted(Tail(sq), x)
\* A sort that leaves the range as it is.
KeepOrder(sq) == sq
RECURSIVE SortAsc(_)
SortAsc(sq) == IF sq = <<>> THEN <<>> ELSE InsertSorted(SortAsc(Tail(sq)), Head(sq))
\* A std::unique that removes nothing.
KeepDuplicates(sq) == sq
\* std::unique on a sorted range: the distinct values, in order.
RECURSIVE UniqueSeq(_)
UniqueSeq(sq) ==
    IF Len(sq) <= 1 THEN sq
    ELSE IF sq[1] = sq[2] THEN UniqueSeq(Tail(sq))
    ELSE <<sq[1]>> \o UniqueSeq(Tail(sq))

\* The prim_ids slots of one leaf after fix_refs: mapped to source triangles,
\* sorted, and the distinct values moved to the front (the tail keeps what the
\* sort left there).
FixedLeafSlots(ids, leaf) ==
    LET seg == SubSeq(ids, leaf.child + 1, leaf.child + leaf.num)
        mapped == [k \in 1..Len(seg) |-> refs[seg[k]]]
        sorted == SortAsc(mapped)
        uniq == UniqueSeq(sorted)
    IN [k \in 1..Len(seg) |-> IF k <= Len(uniq) THEN uniq[k] ELSE sorted[k]]
FixedLeafCount(ids, leaf) ==
    LET seg == SubSeq(ids, leaf.child + 1, leaf.child + leaf.num)
    IN Len(UniqueSeq(SortAsc([k \in 1..Len(seg) |-> refs[seg[k]]])))

LeafIds == {i \in 0..(num_nodes - 1) : is_leaf(nodes[i])}
\* The leaf whose range holds slot j (the leaves partition the slots).
LeafOfSlot(j) ==
    CHOOSE i \in LeafIds : nodes[i].child <= j /\ j < nodes[i].child + nodes[i].num

fix_refs ==
    /\ bphase = "fix"
    /\ prims' = [prims EXCEPT ![1] =
           [p \in 1..Len(prims[1]) |->
               LET leaf == nodes[LeafOfSlot(p - 1)]
               IN FixedLeafSlots(prims[1], leaf)[p - leaf.child]]]
    /\ nodes' = [i \in 0..(num_nodes - 1) |->
           IF is_leaf(nodes[i])
           THEN [nodes[i] EXCEPT !.num = FixedLeafCount(prims[1], nodes[i])]
           ELSE nodes[i]]
    /\ bphase' = "optimize"
    /\ UNCHANGED <<scene, num_refs, stacks, bboxes, centers, refs, num_nodes, bstack,
                   parents, opt, ray, trav, hit, hit_any, btasks, tiles, mainst, rend>>

\* ------------------------------------------------------------- optimize
\* The inefficiency of a node is a product of ratios of box areas.  Areas are
\* integers here, so two inefficiencies are compared exactly as fractions
\* P / Q; the products exceed 32 bits and are kept as digit sequences (least
\* significant digit first).
BigBase == 10^4
RECURSIVE BigNorm(_)
BigNorm(b) ==
    IF b # <<>> /\ b[Len(b)] = 0 THEN BigNorm(SubSeq(b, 1, Len(b) - 1)) ELSE b
RECURSIVE BigMulCarry(_, _, _)
BigMulCarry(b, f, carry) ==
    IF b = <<>>
    THEN (IF carry = 0 THEN <<>>
          ELSE <<carry % BigBase>> \o BigMulCarry(<<>>, f, carry \div BigBase))
    ELSE LET v == b[1] * f + carry
         IN <<v % BigBase>> \o BigMulCarry(Tail(b), f, v \div BigBase)
\* b * f for 0 <= f < 2 * 10^5.
BigMul(b, f) == BigNorm(BigMulCarry(b, f, 0))
BigOne == <<1>>
RECURSIVE BigLessSameLen(_, _, _)
BigLessSameLen(a, b, k) ==
    IF k = 0 THEN FALSE
    ELSE IF a[k] # b[k] THEN a[k] < b[k]
    ELSE BigLessSameLen(a, b, k - 1)
BigLess(a, b) ==
    IF Len(a) # Len(b) THEN Len(a) < Len(b) ELSE BigLessSameLen(a, b, Len(a))

\* compute_inefficiencies: the per-subtree min_area, sum_area, num_children.
RECURSIVE SubStats(_)
SubStats(i) ==
    LET node == nodes[i]
        area == half_area(NodeBBox(node))
    IN IF is_leaf(node)
       THEN [min |-> area, sum |-> area, cnt |-> 1, eps |-> FALSE]
       ELSE LET a == SubStats(node.child)
                b == SubStats(node.child + 1)
                m == Min2(a.min, b.min)
                \* std::max(area_epsilon, ...): a zero area is raised to 1e-10
                clamped == a.eps \/ b.eps \/ m = 0
            IN [min |-> IF clamped /\ area > 0 THEN 0 ELSE Min2(m, area),
                sum |-> a.sum + b.sum + area,
                cnt |-> a.cnt + b.cnt + 1,
                eps |-> clamped /\ area > 0]
\* inefficiencies[i] = m_sum * m_min * m_area as the fraction num / den.
EpsInv == 10^5
Inefficiency(i) ==
    LET node == nodes[i]
        area == half_area(NodeBBox(node))
    IN IF is_leaf(node) THEN [num |-> <<>>, den |-> BigOne]
       ELSE LET a == SubStats(node.child)
                b == SubStats(node.child + 1)
                next_num == a.cnt + b.cnt
                next_sum == a.sum + b.sum
                m == Min2(a.min, b.min)
                clamped == a.eps \/ b.eps \/ m = 0
                cube == BigMul(BigMul(BigMul(BigMul(BigOne, area), area), area), next_num)
            IN IF clamped
               THEN [num |-> BigMul(BigMul(cube, EpsInv), EpsInv),
                     den |-> BigMul(BigOne, next_sum)]
               ELSE [num |-> cube, den |-> BigMul(BigMul(BigOne, next_sum), m)]
RECURSIVE BigAdd(_, _, _)
BigAdd(x, y, c) ==
    IF x = <<>> /\ y = <<>>
    THEN (IF c = 0 THEN <<>> ELSE <<c>>)
    ELSE LET xv == IF x = <<>> THEN 0 ELSE x[1]
             yv == IF y = <<>> THEN 0 ELSE y[1]
             v == xv + yv + c
         IN <<v % BigBase>> \o
            BigAdd(IF x = <<>> THEN <<>> ELSE Tail(x),
                   IF y = <<>> THEN <<>> ELSE Tail(y), v \div BigBase)
RECURSIVE BigTimes(_, _)
BigTimes(a, b) ==
    IF b = <<>> THEN <<>>
    ELSE LET rest == BigTimes(a, Tail(b))
             shifted == IF rest = <<>> THEN <<>> ELSE <<0>> \o rest
         IN BigNorm(BigAdd(BigMul(a, b[1]), shifted, 0))
\* inefficiencies[a] > inefficiencies[b]
MoreInefficient(a, b) ==
    LET x == Inefficiency(a)
        y == Inefficiency(b)
    IN BigLess(BigTimes(y.num, x.den), BigTimes(x.num, y.den))

num_iters == 3
NumRanks == num_nodes - 1
BatchSize == NumRanks \div 10

\* compute_parents
IsParentOf(q, i) ==
    ~is_leaf(nodes[q]) /\ (nodes[q].child = i \/ nodes[q].child + 1 = i)
compute_parents ==
    [i \in 0..(num_nodes - 1) |->
        IF i = 0 \/ \A q \in 0..(num_nodes - 1) : ~IsParentOf(q, i) THEN 0
        ELSE CHOOSE q \in 0..(num_nodes - 1) :
                 IsParentOf(q, i) /\ \A q2 \in 0..(num_nodes - 1) : IsParentOf(q2, i) => q2 <= q]

\* The outcomes of std::partial_sort: the first batch_size ranks hold nodes of
\* greatest inefficiency in decreasing order; equal ones come in any order.
PartialSortOutcomes ==
    {r \in [1..BatchSize -> 1..NumRanks] :
        /\ \A x, y \in 1..BatchSize : x < y => r[x] # r[y] /\ ~MoreInefficient(r[y], r[x])
        /\ \A x \in 1..BatchSize : \A n \in 1..NumRanks :
               (\A y \in 1..BatchSize : r[y] # n) => ~MoreInefficient(n, r[x])}

\* A refit that leaves the boxes of the ancestors as they are.
NoRefit(ns, ps, cur) == ns
\* refit_parents(node_id, parents) on the node array ns.
RECURSIVE refit_parents(_, _, _)
refit_parents(ns, ps, cur) ==
    IF cur = 0 THEN ns
    ELSE LET q == ps[cur]
             c == ns[q].child
         IN refit_parents([ns EXCEPT ![q].min = VMin(ns[c].min, ns[c + 1].min),
                                     ![q].max = VMax(ns[c].max, ns[c + 1].max)], ps, q)

\* remove_node(node_id, parents): the node array, the parents and the freed slot.
remove_node(node_id) ==
    LET parent == parents[node_id]
        first == nodes[parent].child
        other_child == IF first = node_id THEN first + 1 ELSE first
        moved == nodes[other_child]
        ns1 == [nodes EXCEPT ![parent] = moved]
        ps1 == IF ~is_leaf(moved)
               THEN [parents EXCEPT ![moved.child] = parent, ![moved.child + 1] = parent]
               ELSE parents
    IN [nodes |-> refit_parents(ns1, ps1, parent), parents |-> ps1, free |-> first]

\* find_reinsertion(node): the candidates are popped by priority, that is by
\* least induced cost; candidates of equal priority are popped in any order.
\* The result is the set of positions the search can return.
RECURSIVE ReinsertionSearch(_, _, _, _)
ReinsertionSearch(node, queue, best_cost, best) ==
    IF queue = {} THEN {best}
    ELSE LET node_area == half_area(NodeBBox(node))
             tops == {c \in queue : \A d \in queue : c.induced_cost <= d.induced_cost}
         IN UNION {
              IF c.induced_cost + node_area >= best_cost THEN {best}
              ELSE LET cand == nodes[c.node_id]
                       direct_cost == half_area(ExtendBB(NodeBBox(node), NodeBBox(cand)))
                       total_cost == c.induced_cost + direct_cost
                       better == total_cost < best_cost
                       best_cost2 == IF better THEN total_cost ELSE best_cost
                       best2 == IF better THEN c.node_id ELSE best
                       child_cost == total_cost - half_area(NodeBBox(cand))
                       pushed == IF child_cost + node_area < best_cost2 /\ ~is_leaf(cand)
                                 THEN {[node_id |-> cand.child, induced_cost |-> child_cost],
                                       [node_id |-> cand.child + 1, induced_cost |-> child_cost]}
                                 ELSE {}
                   IN ReinsertionSearch(node, (queue \ {c}) \cup pushed, best_cost2, best2)
              : c \in tops}
find_reinsertion(node) ==
    ReinsertionSearch(node, {[node_id |-> 0, induced_cost |-> 0]}, FltMax, 0)

\* reinsert_node(node, pos, free, parents)
reinsert_node(node, pos, free) ==
    LET other == nodes[pos]
        ns1 == [nodes EXCEPT ![free] = node, ![free + 1] = other,
                             ![pos] = [min |-> VMin(node.min, other.min),
                                       max |-> VMax(node.max, other.max),
                                       num |-> 0, child |-> free]]
        \* the assignments to parents in program order: the last one wins
        ps1 == [i \in DOMAIN parents |->
                   IF i = free \/ i = free + 1 THEN pos
                   ELSE IF ~is_leaf(other) /\ (i = other.child \/ i = other.child + 1)
                   THEN free + 1
                   ELSE IF ~is_leaf(node) /\ (i = node.child \/ i = node.child + 1)
                   THEN free
                   ELSE parents[i]]
    IN [nodes |-> refit_parents(ns1, ps1, pos), parents |-> ps1]

\* reorder_nodes: the loop over the explicit stack; st is the stack (top last),
\* tmp the new node array, ps the parents, cur the next free pair of slots.
RECURSIVE ReorderLoop(_, _, _, _)
ReorderLoop(st, tmp, ps, cur) ==
    IF st = <<>> THEN [nodes |-> tmp, parents |-> ps]
    ELSE LET parent_id == st[Len(st)]
             old == tmp[parent_id].child
             left == nodes[old]
             right == nodes[old + 1]
             tmp2 == [tmp EXCEPT ![cur] = left, ![cur + 1] = right,
                                 ![parent_id].child = cur]
             ps2 == [ps EXCEPT ![cur] = parent_id, ![cur + 1] = parent_id]
             st1 == SubSeq(st, 1, Len(st) - 1)
             st2 == IF left.num <= 0 THEN Append(st1, cur) ELSE st1
             st3 == IF right.num <= 0 THEN Append(st2, cur + 1) ELSE st2
         IN ReorderLoop(st3, tmp2, ps2, cur + 2)
\* A reordering that leaves every node where it is.
keep_node_order == [nodes |-> nodes, parents |-> [parents EXCEPT ![0] = 0]]
reorder_nodes ==
    LET tmp0 == nodes
        ps0 == [parents EXCEPT ![0] = 0]
    IN IF nodes[0].num <= 0 THEN ReorderLoop(<<0>>, tmp0, ps0, 1)
       ELSE [nodes |-> tmp0, parents |-> ps0]


\* Bvh::optimize, one action per step of its loops.  opt.pc is the position in
\* the function, opt.iter the outer and opt.i the inner loop counter.
OptimizeBegin ==
    /\ bphase = "optimize"
    /\ opt.pc = "idle"
    /\ parents' = compute_parents
    /\ opt' = [pc |-> "iter", iter |-> 0]
    /\ UNCHANGED <<bphase, scene, num_refs, stacks, bboxes, centers, refs, prims, nodes,
                   num_nodes, bstack, ray, trav, hit, hit_any, btasks, tiles, mainst, rend>>

\* Head of the iteration: leave when the iterations are done or the batch is
\* empty, else rank the nodes.  Bvh::build then fills tris and returns.
OptimizeIter ==
    /\ opt.pc = "iter"
    /\ IF opt.iter < num_iters /\ BatchSize # 0
       THEN /\ \E r \in PartialSortOutcomes :
                   opt' = [pc |-> "remove", iter |-> opt.iter, ranks |-> r, i |-> 0]
            /\ bphase' = bphase
       ELSE /\ opt' = [pc |-> "done", iter |-> opt.iter]
            /\ bphase' = "ready"
    /\ UNCHANGED <<scene, num_refs, stacks, bboxes, centers, refs, prims, nodes,
                   num_nodes, bstack, parents, ray, trav, hit, hit_any, btasks, tiles, mainst, rend>>

OptimizeRemove ==
    /\ opt.pc = "remove"
    /\ opt.i < BatchSize
    /\ LET id == opt.ranks[opt.i + 1]
           r == remove_node(id)
       IN /\ nodes' = r.nodes
          /\ parents' = r.parents
          /\ opt' = [pc |-> "reinsert", iter |-> opt.iter, ranks |-> opt.ranks,
                     i |-> opt.i, node |-> nodes[id], free |-> r.free]
    /\ UNCHANGED <<bphase, scene, num_refs, stacks, bboxes, centers, refs, prims,
                   num_nodes, bstack, ray, trav, hit, hit_any, btasks, tiles, mainst, rend>>

OptimizeReinsert ==
    /\ opt.pc = "reinsert"
    /\ \E pos \in find_reinsertion(opt.node) :
           LET r == reinsert_node(opt.node, pos, opt.free)
           IN /\ nodes' = r.nodes
              /\ parents' = r.parents
    /\ opt' = [pc |-> "remove", iter |-> opt.iter, ranks |-> opt.ranks, i |-> opt.i + 1]
    /\ UNCHANGED <<bphase, scene, num_refs, stacks, bboxes, centers, refs, prims,
                   num_nodes, bstack, ray, trav, hit, hit_any, btasks, tiles, mainst, rend>>

OptimizeReorder ==
    /\ opt.pc = "remove"
    /\ opt.i = BatchSize
    /\ LET r == reorder_nodes
       IN /\ nodes' = r.nodes
          /\ parents' = r.parents
    /\ opt' = [pc |-> "iter", iter |-> opt.iter + 1]
    /\ UNCHANGED <<bphase, scene, num_refs, stacks, bboxes, centers, refs, prims,
                   num_nodes, bstack, ray, trav, hit, hit_any, btasks, tiles, mainst, rend>>

\* ------------------------------------------------------------- traverse
\* tris[j]: the precomputed triangle of leaf slot j, built from the vertices
\* of source triangle prim_ids[j].
Tris(j) == SrcTri(At(prims[1], j))

\* intersect_ray_tri(ray, tri, t, u, v): Moeller-Trumbore; a hit needs the
\* barycentric coordinates inside the triangle and t in (tmin, t_max), where
\* t_max is the current hit.t.  The result is [hit, t].
intersect_ray_tri(r, tri, t_max) ==
    LET e1 == VSub(tri[2], tri[1])
        e2 == VSub(tri[3], tri[1])
        pvec == Cross(r.dir, e2)
        det == Dot(e1, pvec)
        sgn == Sign(det)
        abs_det == det * sgn
        tvec == VSub(r.org, tri[1])
        qvec == Cross(tvec, e1)
        u == Dot(tvec, pvec) * sgn
        v == Dot(r.dir, qvec) * sgn
        t == Dot(e2, qvec) * sgn
    IN IF /\ det # 0
          /\ u >= 0 /\ v >= 0 /\ u + v <= abs_det
          /\ t > r.tmin * abs_det
          /\ (t_max = FltMax \/ t < t_max * abs_det)
       THEN [hit |-> TRUE, t |-> t \div abs_det]
       ELSE [hit |-> FALSE, t |-> t_max]

\* Bvh::Node::intersect: the slab test, with the octant choosing the near and
\* the far bound of each axis.  1 / dir is infinite on an axis where dir is 0.
NodeIntersect(node, r, tmin, tmax) ==
    LET inv_dir == [k \in 1..3 |-> FRcp(r.dir[k])]
        org_div_dir == [k \in 1..3 |-> FMul(r.org[k], inv_dir[k])]
        near(k) == IF r.dir[k] > 0 THEN node.min[k] ELSE node.max[k]
        far(k) == IF r.dir[k] > 0 THEN node.max[k] ELSE node.min[k]
        t0x == fast_multiply_add(near(1), inv_dir[1], FNeg(org_div_dir[1]))
        t1x == fast_multiply_add(far(1), inv_dir[1], FNeg(org_div_dir[1]))
        t0y == fast_multiply_add(near(2), inv_dir[2], FNeg(org_div_dir[2]))
        t1y == fast_multiply_add(far(2), inv_dir[2], FNeg(org_div_dir[2]))
        t0z == fast_multiply_add(near(3), inv_dir[3], FNeg(org_div_dir[3]))
        t1z == fast_multiply_add(far(3), inv_dir[3], FNeg(org_div_dir[3]))
    IN [t0 |-> StdMax(StdMax(t0x, t0y), StdMax(tmin, t0z)),
        t1 |-> StdMin(StdMin(t1x, t1y), StdMin(tmax, t1z))]

\* INTERSECT_LEAF from slot j on: the hit record after the loop, and whether
\* the any-hit mode returned from traverse inside it.
RECURSIVE IntersectLeaf(_, _, _, _)
IntersectLeaf(h, leaf, j, any) ==
    IF j >= leaf.child + leaf.num THEN [h |-> h, ret |-> FALSE]
    ELSE LET r == intersect_ray_tri(ray, Tris(j), h.t)
         IN IF r.hit
            THEN (IF any THEN [h |-> [tri |-> j, t |-> r.t], ret |-> TRUE]
                  ELSE IntersectLeaf([tri |-> j, t |-> r.t], leaf, j + 1, any))
            ELSE IntersectLeaf(h, leaf, j + 1, any)

\* The rays traced.  Direction components are 0 or +-1 so that 1 / dir is
\* exact; the origins make every intersection distance an integer.
RayCatalogue == <<
    [org |-> <<4, 2, -8>>, dir |-> <<0, 0, 1>>],
    [org |-> <<42, 2, -8>>, dir |-> <<0, 0, 1>>],
    [org |-> <<0, -2, -4>>, dir |-> <<1, 1, 1>>],
    [org |-> <<38, -2, -4>>, dir |-> <<1, 1, 1>>],
    [org |-> <<6, 30, 20>>, dir |-> <<-1, -1, -1>>],
    [org |-> <<12, 20, 8>>, dir |-> <<1, -1, 1>>],
    [org |-> <<20, 12, 34>>, dir |-> <<-1, -1, -1>>],
    [org |-> <<46, -2, -4>>, dir |-> <<-1, 1, 1>>],
    [org |-> <<20, 24, 22>>, dir |-> <<1, -1, -1>>],
    [org |-> <<100, 100, 100>>, dir |-> <<1, 1, 1>> ] >>
MaxRay == 10
RayIds == 1..Min2(MaxRay, Len(RayCatalogue))
ShortTMax == 6
RayTMax == {FltMax, ShortTMax}

\* What reading a node past the end of the node array can give: a box the ray
\* misses, a node that sends the traversal to a wild hit, or a fault.
GarbageOutcomes == {"miss", "wild", "fault"}
\* A triangle index that names no source triangle.
WildTri == NumTris

\* The result of traverse is stored for the closest-hit run in hit and for
\* the any-hit run in hit_any.
TraverseReturn(any, h) ==
    IF any
    THEN /\ hit_any' = h
         /\ hit' = hit
         /\ trav' = [pc |-> "done"]
    ELSE /\ hit' = h
         /\ hit_any' = hit_any
         /\ trav' = [pc |-> "closest_done"]

\* Entry of traverse<any>: the closest-hit run of a ray is followed by the
\* any-hit run of the same ray.  trav.stack holds stack[0 .. stack_ptr], and
\* trav.seen the values top had in the iterations already run.
TraverseBegin ==
    /\ bphase = "ready"
    /\ \/ /\ trav.pc = "idle"
          /\ \E i \in RayIds, tmax \in RayTMax :
                 ray' = [org |-> RayCatalogue[i].org, dir |-> RayCatalogue[i].dir,
                         tmin |-> 0, tmax |-> tmax]
          /\ trav' = [pc |-> "loop", any |-> FALSE, top |-> nodes[0].child,
                      stack |-> <<-1>>, h |-> [tri |-> -1, t |-> ray'.tmax], seen |-> {}]
       \/ /\ trav.pc = "closest_done"
          /\ ray' = ray
          /\ trav' = [pc |-> "loop", any |-> TRUE, top |-> nodes[0].child,
                      stack |-> <<-1>>, h |-> [tri |-> -1, t |-> ray.tmax], seen |-> {}]
    /\ UNCHANGED <<bphase, scene, num_refs, stacks, bboxes, centers, refs, prims, nodes,
                   num_nodes, bstack, parents, opt, hit, hit_any, btasks, tiles, mainst, rend>>

\* One iteration of the while loop of traverse.  garbage tells what the read
\* of the right child gave when top + 1 is past the end of the node array.
TraverseIteration(garbage) ==
    LET any == trav.any
        left == nodes[trav.top]
        in_bounds == trav.top + 1 < num_nodes
        right == IF in_bounds THEN nodes[trav.top + 1] ELSE left
        bl == NodeIntersect(left, ray, ray.tmin, trav.h.t)
        br == NodeIntersect(right, ray, ray.tmin, trav.h.t)
        left_hit == FLeq(bl.t0, bl.t1)
        right_hit == in_bounds /\ FLeq(br.t0, br.t1)
        rl == IF left_hit /\ is_leaf(left)
              THEN IntersectLeaf(trav.h, left, left.child, any)
              ELSE [h |-> trav.h, ret |-> FALSE]
        child0 == IF left_hit /\ ~is_leaf(left) THEN left.child ELSE -1
        rr == IF right_hit /\ is_leaf(right)
              THEN IntersectLeaf(rl.h, right, right.child, any)
              ELSE [h |-> rl.h, ret |-> FALSE]
        child1 == IF right_hit /\ ~is_leaf(right) THEN right.child ELSE -1
        swap == FLess(bl.t0, br.t0)
        popped == trav.stack[Len(trav.stack)]
        remapped == IF rr.h.tri >= 0
                    THEN [rr.h EXCEPT !.tri = At(prims[1], rr.h.tri)]
                    ELSE rr.h
    IN IF ~in_bounds /\ garbage = "fault"
       THEN /\ trav' = [pc |-> "fault"]
            /\ UNCHANGED <<hit, hit_any>>
       ELSE IF ~in_bounds /\ garbage = "wild"
       THEN TraverseReturn(any, [tri |-> WildTri, t |-> ray.tmin])
       ELSE IF rl.ret THEN TraverseReturn(any, rl.h)
       ELSE IF rr.ret THEN TraverseReturn(any, rr.h)
       ELSE IF child0 >= 0 /\ child1 >= 0
       THEN /\ trav' = [trav EXCEPT !.h = rr.h, !.seen = @ \cup {trav.top},
                           !.stack = Append(@, IF swap THEN child1 ELSE child0),
                           !.top = IF swap THEN child0 ELSE child1]
            /\ UNCHANGED <<hit, hit_any>>
       ELSE IF child1 >= 0 \/ child0 >= 0
       THEN /\ trav' = [trav EXCEPT !.h = rr.h, !.seen = @ \cup {trav.top},
                           !.top = IF child1 >= 0 THEN child1 ELSE child0]
            /\ UNCHANGED <<hit, hit_any>>
       ELSE IF popped < 0
       THEN TraverseReturn(any, remapped)
       ELSE /\ trav' = [trav EXCEPT !.h = rr.h, !.top = popped, !.seen = @ \cup {trav.top},
                           !.stack = SubSeq(@, 1, Len(@) - 1)]
            /\ UNCHANGED <<hit, hit_any>>

TraverseStep ==
    /\ trav.pc = "loop"
    /\ \E garbage \in (IF trav.top + 1 < num_nodes THEN {"none"} ELSE GarbageOutcomes) :
           TraverseIteration(garbage)
    /\ UNCHANGED <<bphase, scene, num_refs, stacks, bboxes, centers, refs, prims, nodes,
                   num_nodes, bstack, parents, opt, ray, btasks, tiles, mainst, rend>>

\* ------------------------------------------------------- specifications
TilesIdle == [phase |-> "idle"]
MainIdle == [pc |-> "idle"]
RendIdle == [kind |-> "idle"]
BTasksIdle == [run |-> <<>>, calls |-> <<>>]
OptIdle == [pc |-> "idle"]
TravIdle == [pc |-> "idle"]
NoHit == [tri |-> -1, t |-> 0]
NoRay == [org |-> <<0, 0, 0>>, dir |-> <<0, 0, 0>>, tmin |-> 0, tmax |-> 0]

\* The state at the entry of Bvh::build(verts, indices, num_tris) for the
\* triangles sc.
BvhAtEntry(sc) ==
    /\ scene = sc
    /\ bphase = "presplit"
    /\ num_refs = Len(scene)
    /\ stacks = [i \in 0..(Len(scene) - 1) |-> <<[tri |-> scene[i + 1], i |-> i]>>]
    /\ bboxes = [j \in 0..(((Len(scene) * 3) \div 2) - 1) |-> Unset]
    /\ centers = [j \in 0..(((Len(scene) * 3) \div 2) - 1) |-> Unset]
    /\ refs = [j \in 0..(((Len(scene) * 3) \div 2) - 1) |-> Unset]
    /\ prims = <<>>
    /\ nodes = <<>>
    /\ num_nodes = 0
    /\ bstack = <<>>
    /\ btasks = BTasksIdle
    /\ parents = <<>>
    /\ opt = OptIdle
    /\ ray = NoRay
    /\ trav = TravIdle
    /\ hit = NoHit
    /\ hit_any = NoHit
    /\ tiles = TilesIdle
    /\ mainst = MainIdle
    /\ rend = RendIdle

InitBvh == \E s \in SceneIds : BvhAtEntry(Catalogue[s])

\* pre_split alone, on scenes in which several triangles are split and compete
\* for the reference indices.
PreSplitScenes ==
    { <<TriWide, TriSliver>>,
      <<TriSliver, TriWide, TriFlatC, TriFlatA>>,
      <<TriFlatD, TriWide, TriSliver, TriFlatE, TriFlatC, TriFlatA>> }
InitPreSplit == \E sc \in PreSplitScenes : BvhAtEntry(sc)
NextPreSplit == PreSplit \/ BuildBegin
SpecPreSplit == InitPreSplit /\ [][NextPreSplit]_vars

NextBvh ==
    \/ PreSplit
    \/ BuildBegin
    \/ BuildStep
    \/ BuildFinish
    \/ fix_refs
    \/ OptimizeBegin
    \/ OptimizeIter
    \/ OptimizeRemove
    \/ OptimizeReinsert
    \/ OptimizeReorder
    \/ TraverseBegin
    \/ TraverseStep

SpecBvh == InitBvh /\ [][NextBvh]_vars


\* --------------------------------------------------- traverse, deep trees
\* A tree of MaxComb levels in which both children of a node are inner nodes:
\* level k holds the pair (A_k, B_k) at the indices 4k - 3 and 4k - 2, B_k has
\* the two leaves at 4k - 1 and 4k, A_k has the pair of level k + 1, and the
\* last A has two leaves.  The boxes lie along the third ray of RayCatalogue,
\* the deeper levels nearer to its origin.  The tree is given as the result of
\* Bvh::build; the builder puts no limit on the depth.
MaxComb == 64
traverse_stack_size == 64

CombLevels == {2, MaxComb}
CombAt(levels, k) == 4 * (levels - k + 1)
Cube(t) == BBox(<<t, t - 2, t - 4>>, <<t + 2, t, t - 2>>)
Span(t) == BBox(<<0, -2, -4>>, <<t + 2, t, t - 2>>)
CombTri(t, s) ==
    IF s = 0 THEN << <<t, t - 2, t - 4>>, <<t + 2, t - 2, t - 4>>, <<t, t, t - 4>> >>
    ELSE << <<t + 2, t, t - 2>>, <<t, t, t - 2>>, <<t + 2, t - 2, t - 2>> >>

CombScene(levels) ==
    [j \in 1..(2 * levels + 2) |-> CombTri(CombAt(levels, ((j - 1) \div 2) + 1), (j - 1) % 2)]

CombNode(levels, i) ==
    LET k == (i + 3) \div 4
        r == (i + 3) % 4
    IN  IF i = 0 THEN MakeNode(Span(CombAt(levels, 1)), 1, 0)
        ELSE IF k > levels \/ r >= 2
        THEN MakeNode(TriBBox(CombTri(CombAt(levels, k), r % 2)),
                      2 * (k - 1) + (r % 2), 1)
        ELSE IF r = 0 THEN MakeNode(Span(CombAt(levels, k + 1)), 4 * k + 1, 0)
        ELSE MakeNode(Cube(CombAt(levels, k)), 4 * k - 1, 0)

InitDeep ==
    /\ \E levels \in CombLevels :
         /\ scene = CombScene(levels)
         /\ nodes = [i \in 0..(4 * levels + 2) |-> CombNode(levels, i)]
         /\ num_nodes = 4 * levels + 3
         /\ num_refs = 2 * levels + 2
         /\ prims = [a \in 1..3 |-> [j \in 1..(2 * levels + 2) |-> j - 1]]
    /\ bphase = "ready"
    /\ stacks = <<>>
    /\ bboxes = <<>>
    /\ centers = <<>>
    /\ refs = <<>>
    /\ bstack = <<>>
    /\ btasks = BTasksIdle
    /\ parents = <<>>
    /\ opt = OptIdle
    /\ ray = NoRay
    /\ trav = TravIdle
    /\ hit = NoHit
    /\ hit_any = NoHit
    /\ tiles = TilesIdle
    /\ mainst = MainIdle
    /\ rend = RendIdle

NextDeep == TraverseBegin \/ TraverseStep

SpecDeep == InitDeep /\ [][NextDeep]_vars

\* --------------------------------- BvhBuilder::build, the builder tasks
\* The parallel build: a task runs BvhBuilder::build(node_id) and the calls it
\* makes itself; the smaller child of a split is handed to a new task when it
\* has more than the threshold of references.  TaskThreshold is the scaled
\* stand-in of parallel_threshold().
TaskThreshold == 1
\* bool spawn_task = nodes[smallest_node].num_prims > parallel_threshold();
SpawnTask(num_prims) == num_prims > TaskThreshold

\* A counter update that loses the increment.
KeepNodeCount(count) == count
\* node_count += 2 of the atomic capture.
NextNodeCount(count) == count + 2

\* The locals of a build call between its steps: range, split and the box of
\* the left child.
NoSplit == [begin |-> 0, end |-> 0, axis |-> 0, split |-> 0,
            left |-> EmptyBBox, right |-> EmptyBBox]
\* A task that has build(node_id) to run.  stack holds the node ids of the
\* calls the task still makes, the current one first; c is the local
\* num_nodes of the atomic capture.
NewTask(node_id) == [stack |-> <<node_id>>, pc |-> "enter", s |-> NoSplit, c |-> -1]
TaskIds == DOMAIN btasks.run
TaskDone(t) == btasks.run[t].stack = <<>>

\* builder->build_and_delete(0) in the single region.
TaskStart ==
    /\ bphase = "build"
    /\ bstack = <<0>>
    /\ btasks = BTasksIdle
    /\ bstack' = <<>>
    /\ btasks' = [run |-> (0 :> NewTask(0)),
                  calls |-> [i \in 0..(2 * NumRefs) |-> <<>>]]
    /\ UNCHANGED <<bphase, scene, num_refs, stacks, bboxes, centers, refs, prims, nodes,
                   num_nodes, parents, opt, ray, trav, hit, hit_any, tiles, mainst, rend>>

\* build(node_id) returns without a split.
TaskReturn(t, task, node_id) ==
    /\ btasks' = [run |-> [btasks.run EXCEPT ![t] = [task EXCEPT !.stack = Tail(@)]],
                  calls |-> [btasks.calls EXCEPT ![node_id] = Append(@, t)]]
    /\ UNCHANGED prims

\* The two stable partitions and the box of the left child; the call goes on
\* to the atomic capture.
TaskPartition(t, task, node_id, begin, end, s, split_ref, split_pos) ==
    /\ prims' = [prims EXCEPT
           ![(s.axis % 3) + 1] = StablePartition(@, begin, end, s.axis, split_pos, split_ref),
           ![((s.axis + 1) % 3) + 1] =
               StablePartition(@, begin, end, s.axis, split_pos, split_ref)]
    /\ btasks' =
           [run |-> [btasks.run EXCEPT ![t] =
                       [task EXCEPT !.pc = "alloc",
                                    !.s = [begin |-> begin, end |-> end, axis |-> s.axis,
                                           split |-> s.split,
                                           left |-> RangeBBox(prims[s.axis], begin, s.split),
                                           right |-> s.right]]],
            calls |-> [btasks.calls EXCEPT ![node_id] = Append(@, t)]]

TaskSplit(t, task, node_id, node, begin, end, s) ==
    IF s.cost < ((end - begin) - traversal_cost) * half_area(NodeBBox(node))
    THEN TaskPartition(t, task, node_id, begin, end, s,
                       At(prims[s.axis], s.split - 1),
                       centers[At(prims[s.axis], s.split - 1)][s.axis])
    ELSE TaskReturn(t, task, node_id)

TaskRange(t, task, node_id, node, begin, end) ==
    IF end - begin <= 1
    THEN TaskReturn(t, task, node_id)
    ELSE TaskSplit(t, task, node_id, node, begin, end, BestSplit(begin, end))

\* build(node_id) of task t from its entry to the atomic capture.
TaskEnter(t) ==
    /\ bphase = "build"
    /\ btasks.run[t].pc = "enter"
    /\ ~TaskDone(t)
    /\ TaskRange(t, btasks.run[t], Head(btasks.run[t].stack),
                 nodes[Head(btasks.run[t].stack)],
                 nodes[Head(btasks.run[t].stack)].child,
                 nodes[Head(btasks.run[t].stack)].child
                     + nodes[Head(btasks.run[t].stack)].num)
    /\ UNCHANGED <<bphase, scene, num_refs, stacks, bboxes, centers, refs, nodes,
                   num_nodes, bstack, parents, opt, ray, trav, hit, hit_any, tiles,
                   mainst, rend>>

\* #pragma omp atomic capture { num_nodes = node_count; node_count += 2; }
TaskAlloc(t) ==
    /\ bphase = "build"
    /\ btasks.run[t].pc = "alloc"
    /\ num_nodes' = NextNodeCount(num_nodes)
    /\ btasks' = [btasks EXCEPT !.run[t].pc = "link", !.run[t].c = num_nodes]
    /\ UNCHANGED <<bphase, scene, num_refs, stacks, bboxes, centers, refs, prims, nodes,
                   bstack, parents, opt, ray, trav, hit, hit_any, tiles, mainst, rend>>

\* A task that also builds the child it has spawned.
OwnCallsBoth(biggest, smallest, spawn_task) == <<biggest, smallest>>
\* The calls a task makes itself after a split: build(biggest_node), then
\* build(smallest_node) unless that one was spawned.
OwnCalls(biggest, smallest, spawn_task) ==
    IF spawn_task THEN <<biggest>> ELSE <<biggest, smallest>>

TaskSpawn(t, task, biggest, smallest, spawn_task) ==
    LET mine == [task EXCEPT
                    !.stack = OwnCalls(biggest, smallest, spawn_task) \o Tail(@),
                    !.pc = "enter", !.s = NoSplit, !.c = -1]
        run == [btasks.run EXCEPT ![t] = mine]
    IN btasks' = [btasks EXCEPT !.run =
                     IF spawn_task THEN run @@ (smallest :> NewTask(smallest)) ELSE run]

TaskChildren(t, task, node_id, s, c, left, right) ==
    /\ nodes' = [nodes EXCEPT
           ![node_id] = [@ EXCEPT !.child = c, !.num = -(s.axis - 1)],
           ![c] = left,
           ![c + 1] = right]
    /\ TaskSpawn(t, task,
                 IF right.num >= left.num THEN c + 1 ELSE c,
                 IF right.num < left.num THEN c + 1 ELSE c,
                 SpawnTask(IF right.num < left.num THEN right.num ELSE left.num))

\* The rest of build(node_id) after the atomic capture: the node becomes an
\* inner node, its children are set up, the smaller one is spawned or kept.
TaskLink(t) ==
    /\ bphase = "build"
    /\ btasks.run[t].pc = "link"
    /\ TaskChildren(t, btasks.run[t], Head(btasks.run[t].stack), btasks.run[t].s,
                    btasks.run[t].c,
                    MakeNode(btasks.run[t].s.left, btasks.run[t].s.begin,
                             btasks.run[t].s.split - btasks.run[t].s.begin),
                    MakeNode(btasks.run[t].s.right, btasks.run[t].s.split,
                             btasks.run[t].s.end - btasks.run[t].s.split))
    /\ UNCHANGED <<bphase, scene, num_refs, stacks, bboxes, centers, refs, prims,
                   num_nodes, bstack, parents, opt, ray, trav, hit, hit_any, tiles,
                   mainst, rend>>

\* The end of the parallel region waits for every task; then the node array
\* is cut to num_nodes.
TasksJoin ==
    /\ bphase = "build"
    /\ TaskIds # {}
    /\ \A t \in TaskIds : TaskDone(t)
    /\ nodes' = [i \in 0..(num_nodes - 1) |-> nodes[i]]
    /\ bphase' = "fix"
    /\ UNCHANGED <<scene, num_refs, stacks, bboxes, centers, refs, prims, num_nodes,
                   bstack, btasks, parents, opt, ray, trav, hit, hit_any, tiles,
                   mainst, rend>>

NextTasks ==
    \/ PreSplit
    \/ BuildBegin
    \/ TaskStart
    \/ \E t \in TaskIds : TaskEnter(t)
    \/ \E t \in TaskIds : TaskAlloc(t)
    \/ \E t \in TaskIds : TaskLink(t)
    \/ TasksJoin

SpecTasks == InitBvh /\ [][NextTasks]_vars

\* -------------------------------------------------------- tile scheduler
\* renderer.h: the tile sides the renderers pass to process_tiles (32 in the
\* source, scaled here to MaxTile pixels).
default_tile_width == MaxTile
default_tile_height == MaxTile

\* Bitwise exclusive or of two naturals (xmin ^ ymin).
RECURSIVE XOR(_, _)
XOR(a, b) ==
    IF a = 0 THEN b
    ELSE IF b = 0 THEN a
    ELSE 2 * XOR(a \div 2, b \div 2) + ((a + b) % 2)

\* The tile of the callback f(xmin, ymin, xmax, ymax).
Tile(xmin, ymin, w, h, tile_w, tile_h) ==
    [xmin |-> xmin, ymin |-> ymin,
     xmax |-> Min2(xmin + tile_w, w), ymax |-> Min2(ymin + tile_h, h)]
\* cols without the partial tile at the right edge.
ColsRoundedDown(x, w, tile_w) == (w - x) \div tile_w
\* process_tiles, thread variant: cols, rows and the tile of index pos.
Cols(x, w, tile_w) == (w - x) \div tile_w + (IF (w - x) % tile_w # 0 THEN 1 ELSE 0)
Rows(y, h, tile_h) == (h - y) \div tile_h + (IF (h - y) % tile_h # 0 THEN 1 ELSE 0)
TileOfPos(pos, x, y, w, h, tile_w, tile_h) ==
    LET cols == Cols(x, w, tile_w)
    IN Tile((pos % cols) * tile_w + x, (pos \div cols) * tile_h + y, w, h, tile_w, tile_h)
ThreadTiles(x, y, w, h, tile_w, tile_h) ==
    {TileOfPos(pos, x, y, w, h, tile_w, tile_h) :
        pos \in 0..(Cols(x, w, tile_w) * Rows(y, h, tile_h) - 1)}
\* process_tiles, OpenMP variant: the two collapsed loops.
OmpTiles(x, y, w, h, tile_w, tile_h) ==
    {Tile(tile_x, tile_y, w, h, tile_w, tile_h) :
        tile_x \in {c \in x..(w - 1) : (c - x) % tile_w = 0},
        tile_y \in {c \in y..(h - 1) : (c - y) % tile_h = 0}}
\* The tiles of one render call of an image of tiles.w by tiles.h pixels.
TileSet ==
    IF tiles.use_std_thread
    THEN ThreadTiles(0, 0, tiles.w, tiles.h, default_tile_width, default_tile_height)
    ELSE OmpTiles(0, 0, tiles.w, tiles.h, default_tile_width, default_tile_height)

Workers == 1..MaxWorkers
Pixels == (0..(tiles.w - 1)) \X (0..(tiles.h - 1))
NoTile == [none |-> TRUE]

\* Renderer::render up to the dispatch of the tiles.  count is the number of
\* updates of each pixel in this call, seeds the arguments of sampler_seed of
\* each tile started.
RenderBegin ==
    /\ tiles.phase \in {"idle", "rendered"}
    /\ tiles.iter <= MaxIter
    /\ tiles' = [tiles EXCEPT !.phase = "running",
                              !.todo = TileSet,
                              !.count = [p \in Pixels |-> 0],
                              !.seeds = <<>>]
    /\ UNCHANGED <<bvhVars, mainst, rend>>

\* A worker takes a tile not yet run and enters the callback: it constructs
\* its sampler from sampler_seed(xmin ^ ymin, iter).
TileClaim ==
    /\ tiles.phase = "running"
    /\ \E w \in Workers, t \in tiles.todo :
           /\ tiles.work[w] = NoTile
           /\ tiles' = [tiles EXCEPT
                  !.todo = @ \ {t},
                  !.work[w] = [tile |-> t, y |-> t.ymin],
                  !.seeds = Append(@, [tile |-> t, worker |-> w,
                                       seed |-> <<XOR(t.xmin, t.ymin), tiles.iter>>])]
    /\ UNCHANGED <<bvhVars, mainst, rend>>

\* A worker runs one row of its tile: img(x, y) += color for x in the row.
TileRow ==
    /\ tiles.phase = "running"
    /\ \E w \in Workers :
           /\ tiles.work[w] # NoTile
           /\ LET t == tiles.work[w].tile
                  y == tiles.work[w].y
              IN tiles' = [tiles EXCEPT
                     !.count = [p \in Pixels |->
                                   IF p[2] = y /\ t.xmin <= p[1] /\ p[1] < t.xmax
                                   THEN @[p] + 1 ELSE @[p]],
                     !.work[w] = IF y + 1 < t.ymax
                                 THEN [tile |-> t, y |-> y + 1] ELSE NoTile]
    /\ UNCHANGED <<bvhVars, mainst, rend>>

\* All tiles have run: process_tiles returns and render does iter++.
RenderEnd ==
    /\ tiles.phase = "running"
    /\ tiles.todo = {}
    /\ \A w \in Workers : tiles.work[w] = NoTile
    /\ tiles' = [tiles EXCEPT !.phase = "rendered", !.iter = @ + 1]
    /\ UNCHANGED <<bvhVars, mainst, rend>>

\* The BVH part at rest.
BvhIdle ==
    /\ scene = <<>>
    /\ bphase = "idle"
    /\ num_refs = 0
    /\ stacks = <<>>
    /\ bboxes = <<>>
    /\ centers = <<>>
    /\ refs = <<>>
    /\ prims = <<>>
    /\ nodes = <<>>
    /\ num_nodes = 0
    /\ bstack = <<>>
    /\ btasks = BTasksIdle
    /\ parents = <<>>
    /\ opt = OptIdle
    /\ ray = NoRay
    /\ trav = TravIdle
    /\ hit = NoHit
    /\ hit_any = NoHit

\* The tile scheduler after Renderer::reset() (iter = 1), for every image size
\* and both builds of process_tiles.
InitTiles ==
    /\ BvhIdle
    /\ mainst = MainIdle
    /\ rend = RendIdle
    /\ \E w \in 1..MaxSide, h \in 1..MaxSide, std \in BOOLEAN :
           tiles = [phase |-> "idle", w |-> w, h |-> h, use_std_thread |-> std,
                    iter |-> 1, todo |-> {}, work |-> [k \in Workers |-> NoTile],
                    count |-> [p \in (0..(w - 1)) \X (0..(h - 1)) |-> 0],
                    seeds |-> <<>>]

NextTiles ==
    \/ RenderBegin
    \/ TileClaim
    \/ TileRow
    \/ RenderEnd

SpecTiles == InitTiles /\ [][NextTiles]_vars

\* -------------------------------------------------------------- main loop
\* <climits>, as used for the debug rectangle (main.cpp 199-202).
INT_MAX == 2147483647
INT_MIN == -2147483647 - 1

\* renderers: debug, pt, ppm, in the order of the emplace_back calls.
NumRenderers == 3

\* The SDL events handle_events tells apart.  Mouse positions come from a
\* small set; the keys are those the switch names (two of the four arrows).
MousePos == {1, 2}
Keys == {"UP", "LEFT", "r", "ESCAPE", "d"}
Ev(type, button, pos, sym) == [type |-> type, button |-> button, pos |-> pos, sym |-> sym]
Events ==
    {Ev("QUIT", "", 0, "")}
    \cup {Ev(t, b, q, "") : t \in {"MOUSEBUTTONDOWN", "MOUSEBUTTONUP"},
                             b \in {"LEFT", "RIGHT"}, q \in MousePos}
    \cup {Ev("MOUSEMOTION", "", q, "") : q \in MousePos}
    \cup {Ev(t, "", 0, k) : t \in {"KEYDOWN", "KEYUP"}, k \in Keys}
RECURSIVE SeqsUpTo(_, _)
SeqsUpTo(S, n) ==
    IF n = 0 THEN {<<>>}
    ELSE LET shorter == SeqsUpTo(S, n - 1)
         IN shorter \cup {Append(q, e) : q \in shorter, e \in S}

\* The body of the switch of handle_events for one event, on the record st of
\* the variables it reads and writes: the statics arrows, camera_on, select_on,
\* the globals debug and debug_xmin .. debug_ymax, and the references accum and
\* render_fn.  st.quit says that the function returned true; st.moved is the
\* ghost that notes a camera motion or a renderer switch.
HandleEvent(st, e, ndebug) ==
    LET key_down == e.type = "KEYDOWN"
    IN CASE e.type = "QUIT" -> [st EXCEPT !.quit = TRUE]
       [] e.type = "MOUSEBUTTONDOWN" ->
            LET s1 == IF e.button = "LEFT" THEN [st EXCEPT !.camera_on = TRUE] ELSE st
            IN IF ~ndebug /\ ~s1.camera_on /\ e.button = "RIGHT"
               THEN [s1 EXCEPT !.select_on = TRUE,
                               !.debug_xmin = e.pos, !.debug_xmax = INT_MIN,
                               !.debug_ymin = e.pos, !.debug_ymax = INT_MIN]
               ELSE s1
       [] e.type = "MOUSEBUTTONUP" ->
            LET s1 == IF e.button = "LEFT" THEN [st EXCEPT !.camera_on = FALSE] ELSE st
            IN IF ~ndebug /\ e.button = "RIGHT"
               THEN [s1 EXCEPT !.select_on = FALSE] ELSE s1
       [] e.type = "MOUSEMOTION" ->
            LET s1 == IF st.camera_on
                      THEN [st EXCEPT !.accum = 0, !.moved = TRUE] ELSE st
            IN IF ~ndebug /\ s1.select_on
               THEN [s1 EXCEPT !.debug_xmax = Max2(@, e.pos),
                               !.debug_ymax = Max2(@, e.pos)]
               ELSE s1
       [] e.type \in {"KEYDOWN", "KEYUP"} ->
            CASE e.sym = "d" -> IF ndebug THEN st ELSE [st EXCEPT !.debug = key_down]
              [] e.sym = "UP" -> [st EXCEPT !.arrows[1] = key_down]
              [] e.sym = "LEFT" -> [st EXCEPT !.arrows[3] = key_down]
              [] e.sym = "r" ->
                   IF key_down
                   THEN [st EXCEPT !.render_fn = (@ + 1) % NumRenderers,
                                   !.accum = 0, !.moved = TRUE]
                   ELSE st
              [] e.sym = "ESCAPE" -> [st EXCEPT !.quit = TRUE]
              [] OTHER -> st
       [] OTHER -> st

\* The while (SDL_PollEvent(&event)) loop: a quit returns at once.
RECURSIVE PollEvents(_, _, _)
PollEvents(st, batch, ndebug) ==
    IF batch = <<>> \/ st.quit THEN st
    ELSE PollEvents(HandleEvent(st, Head(batch), ndebug), Tail(batch), ndebug)

\* handle_events whose arrow keys move the camera and leave accum alone.
handle_events_keeps_accum(st, batch, ndebug) ==
    LET s1 == PollEvents(st, batch, ndebug)
    IN IF s1.quit THEN s1
       ELSE IF \E k \in 1..4 : s1.arrows[k]
       THEN [s1 EXCEPT !.moved = TRUE]
       ELSE s1
\* handle_events(window, scene, render_fn, accum) on the events of batch.
handle_events(st, batch, ndebug) ==
    LET s1 == PollEvents(st, batch, ndebug)
    IN IF s1.quit THEN s1
       ELSE IF \E k \in 1..4 : s1.arrows[k]
       THEN [s1 EXCEPT !.accum = 0, !.moved = TRUE]
       ELSE s1

\* A size_t is represented by the integer of least magnitude congruent to it
\* modulo 2^64, so that std::string::npos (the largest size_t) is -1 and
\* length() - 4 is the plain difference.
NPos == -1
\* std::string::rfind(pat): the position of the last occurrence, or npos.
RFind(path, pat) ==
    LET found == {i \in 0..(Len(path) - Len(pat)) :
                     SubSeq(path, i + 1, i + Len(pat)) = pat}
    IN IF found = {} THEN NPos
       ELSE CHOOSE i \in found : \A j \in found : j <= i
DotPng == <<".", "p", "n", "g">>
DotExr == <<".", "e", "x", "r">>
\* The values of --output the save is run with.
OutputPaths ==
    { <<>>, <<"o">>, <<"o", "u">>, <<"o", "u", "t">>,
      <<"a">> \o DotPng, <<"a">> \o DotExr, <<"a", ".", "j", "p", "g">>,
      DotPng, DotExr, DotPng \o DotExr, DotExr \o DotPng,
      <<"r", "e", "n", "d", "e", "r">> }

\* The events of a run without quit: one arrow key, the renderer switch, the
\* debug key and the selection with the right button.
LoopEvents ==
    {Ev(t, "", 0, k) : t \in {"KEYDOWN", "KEYUP"}, k \in {"UP"}}
    \cup {Ev("KEYDOWN", "", 0, "r"), Ev("KEYDOWN", "", 0, "d"),
          Ev("MOUSEBUTTONDOWN", "RIGHT", 1, ""), Ev("MOUSEMOTION", "", 2, "")}
\* The counters of a run whose loop is followed without a bound on its
\* iterations (mainst.cyclic) stop counting at MaxCount.
MaxCount == 5
Inc(x) == IF mainst.cyclic THEN Min2(x + 1, MaxCount) ELSE x + 1
\* max_samples != 0 && total_frames >= max_samples, with no test at all.
SamplesNeverDone(max_samples, total_frames) == FALSE
\* max_samples != 0 && total_frames >= max_samples
SamplesDone(max_samples, total_frames) ==
    max_samples # 0 /\ total_frames >= max_samples

NoDiv == [site |-> "none", accum |-> 0, samples |-> 0]
NoOut == [path |-> <<>>, warned |-> FALSE, writers |-> <<>>, normalised |-> 0,
          gamma |-> 0, code |-> 0, saved |-> FALSE]

\* The names of the renderers, in the order of the emplace_back calls, and the
\* values of --algo that main is run with.
RendererNames == <<"debug", "pt", "ppm">>
AlgoNames == {"debug", "pt", "ppm", "bpt", "nosuch"}
\* A lookup that falls back on the first renderer when the name is unknown.
FindRendererOrFirst(name) ==
    IF \E i \in 1..NumRenderers : RendererNames[i] = name
    THEN (CHOOSE i \in 1..NumRenderers : RendererNames[i] = name) - 1
    ELSE 0
\* std::find_if over renderers: the index of the first renderer of that name,
\* or renderers.end() (NumRenderers).
FindRenderer(name) ==
    IF \E i \in 1..NumRenderers : RendererNames[i] = name
    THEN (CHOOSE i \in 1..NumRenderers : RendererNames[i] = name) - 1
    ELSE NumRenderers

\* main up to the loop (main.cpp 123-209): the early returns, the default
\* sample count of the build without GUI, and render_fn.  start names the
\* return that was taken, ret is the value main returned (-1 while it runs).
StartOutcome(help, nargs, load_ok, sdl_ok, gui, algo) ==
    IF help THEN "help"
    ELSE IF nargs = 0 THEN "noargs"
    ELSE IF ~load_ok THEN "load"
    ELSE IF gui /\ ~sdl_ok THEN "sdl"
    ELSE IF FindRenderer(algo) = NumRenderers THEN "renderer"
    ELSE "ok"
MainStart ==
    /\ mainst.pc = "start"
    /\ \E help \in BOOLEAN, nargs \in 0..2, load_ok \in BOOLEAN,
          sdl_ok \in BOOLEAN, algo \in AlgoNames :
           LET o == StartOutcome(help, nargs, load_ok, sdl_ok, mainst.gui, algo)
           IN mainst' =
                IF o = "ok"
                THEN [mainst EXCEPT
                        !.pc = "render", !.start = o, !.algo = algo,
                        !.max_samples = IF ~mainst.gui /\ @ = 0 THEN 4 ELSE @,
                        !.st = [@ EXCEPT !.render_fn = FindRenderer(algo)]]
                ELSE [mainst EXCEPT
                        !.pc = "exit", !.start = o, !.algo = algo,
                        !.ret = IF o = "help" THEN 0 ELSE 1]
    /\ UNCHANGED <<bvhVars, tiles, rend>>

\* The first part of the loop body (main.cpp 214-237): reset and clear when
\* accum is 0, then render.  Ghosts: samples counts the render calls summed
\* into the image since it was cleared, clean_for is the renderer that was
\* reset with the image cleared since the last motion or switch (-1 if none),
\* reset_called the renderers reset so far, render_ok whether every render
\* call so far came after such a reset of the renderer it ran.
MainRender ==
    /\ mainst.pc = "render"
    /\ mainst.cyclic \/ mainst.loops < MaxFrames
    /\ LET st == mainst.st
           fn == st.render_fn
           run == mainst.ndebug \/ st.debug
                     \/ (st.debug_xmin >= st.debug_xmax /\ st.debug_ymin >= st.debug_ymax)
           first == st.accum = 0
           clean == IF first THEN fn ELSE mainst.clean_for
           called == IF first THEN mainst.reset_called \cup {fn} ELSE mainst.reset_called
       IN mainst' =
            IF run
            THEN [mainst EXCEPT
                    !.pc = IF mainst.gui THEN "display" ELSE "check",
                    !.loops = Inc(@),
                    !.st = [st EXCEPT !.accum = Inc(@),
                                      !.debug = IF mainst.ndebug THEN @ ELSE FALSE],
                    !.total_frames = Inc(IF first THEN 0 ELSE @),
                    !.samples = Inc(IF first THEN 0 ELSE @),
                    !.clean_for = clean,
                    !.reset_called = called,
                    !.renders = Inc(@),
                    !.render_ok = @ /\ clean = fn /\ fn \in called]
            ELSE [mainst EXCEPT
                    !.pc = IF mainst.gui THEN "display" ELSE "check",
                    !.loops = Inc(@)]
    /\ UNCHANGED <<bvhVars, tiles, rend>>

\* The display (main.cpp 245-282): every pixel is img(x, y) / accum.
MainDisplay ==
    /\ mainst.pc = "display"
    /\ mainst' = [mainst EXCEPT
           !.pc = "events",
           !.div = [site |-> "display", accum |-> mainst.st.accum,
                    samples |-> mainst.samples]]
    /\ UNCHANGED <<bvhVars, tiles, rend>>

\* done = handle_events(...) on the events queued since the last call.
MainEvents ==
    /\ mainst.pc = "events"
    /\ \E batch \in (IF mainst.cyclic THEN SeqsUpTo(LoopEvents, 1)
                      ELSE SeqsUpTo(Events, MaxEvents)) :
           LET s1 == handle_events(mainst.st, batch, mainst.ndebug)
           IN mainst' = [mainst EXCEPT
                  !.pc = "check",
                  !.st = [s1 EXCEPT !.quit = FALSE, !.moved = FALSE],
                  !.done = s1.quit,
                  !.clean_for = IF s1.moved THEN -1 ELSE @]
    /\ UNCHANGED <<bvhVars, tiles, rend>>

\* done |= max_samples ...; done |= max_time ...; and the loop test.  Whether
\* the time is up is not determined by the model.
MainCheckDone ==
    /\ mainst.pc = "check"
    /\ \E time_up \in (IF mainst.max_time_set THEN BOOLEAN ELSE {FALSE}) :
           LET done == \/ mainst.done
                       \/ SamplesDone(mainst.max_samples, mainst.total_frames)
                       \/ time_up
           IN mainst' = [mainst EXCEPT !.done = done,
                                       !.pc = IF done THEN "save" ELSE "render"]
    /\ UNCHANGED <<bvhVars, tiles, rend>>

\* The save (main.cpp 289-310).  A writer can fail, and main then returns 1.
MainSave ==
    /\ mainst.pc = "save"
    /\ \E output_image \in OutputPaths, png_ok \in BOOLEAN, exr_ok \in BOOLEAN :
           LET is_png == RFind(output_image, DotPng) = Len(output_image) - 4
               save_as_exr == RFind(output_image, DotExr) = Len(output_image) - 4
               warned == output_image # <<>> /\ ~is_png /\ ~save_as_exr
               save_as_png == is_png \/ warned
               run_png == save_as_png
               run_exr == save_as_exr /\ (run_png => png_ok)
               failed == (run_png /\ ~png_ok) \/ (run_exr /\ ~exr_ok)
               n == (IF run_png THEN 1 ELSE 0) + (IF run_exr THEN 1 ELSE 0)
           IN mainst' = [mainst EXCEPT
                  !.pc = "exit",
                  !.div = IF n > 0
                          THEN [site |-> "save", accum |-> mainst.st.accum,
                                samples |-> mainst.samples]
                          ELSE @,
                  !.out = [path |-> output_image, warned |-> warned,
                           writers |-> (IF run_png THEN <<"png">> ELSE <<>>)
                                           \o (IF run_exr THEN <<"exr">> ELSE <<>>),
                           normalised |-> n,
                           gamma |-> IF run_png THEN 1 ELSE 0,
                           code |-> IF failed THEN 1 ELSE 0,
                           saved |-> TRUE],
                  !.ret = IF failed THEN 1 ELSE 0]
    /\ UNCHANGED <<bvhVars, tiles, rend>>

\* main at its entry: the two build switches, --samples and --time are fixed
\* here, the other inputs are drawn by MainStart.
MainEntry(cyclic, max_times) ==
    /\ BvhIdle
    /\ tiles = TilesIdle
    /\ rend = RendIdle
    /\ \E ndebug \in BOOLEAN, gui \in BOOLEAN, samples \in 0..2,
          max_time_set \in max_times :
           mainst = [pc |-> "start", cyclic |-> cyclic, ndebug |-> ndebug, gui |-> gui,
                     cli_samples |-> samples, max_samples |-> samples,
                     max_time_set |-> max_time_set,
                     start |-> "none", algo |-> "", ret |-> -1,
                     total_frames |-> 0, loops |-> 0, done |-> FALSE,
                     st |-> [arrows |-> [k \in 1..4 |-> FALSE], camera_on |-> FALSE,
                             select_on |-> FALSE, debug |-> FALSE,
                             debug_xmin |-> INT_MAX, debug_xmax |-> INT_MIN,
                             debug_ymin |-> INT_MAX, debug_ymax |-> INT_MIN,
                             accum |-> 0, render_fn |-> 0,
                             quit |-> FALSE, moved |-> FALSE],
                     samples |-> 0, clean_for |-> -1, reset_called |-> {},
                     renders |-> 0, render_ok |-> TRUE, div |-> NoDiv, out |-> NoOut]

InitMain == MainEntry(FALSE, BOOLEAN)

NextMain ==
    \/ MainStart
    \/ MainRender
    \/ MainDisplay
    \/ MainEvents
    \/ MainCheckDone
    \/ MainSave

SpecMain == InitMain /\ [][NextMain]_vars

\* The runs without --time and without a quit event, the loop followed for
\* as long as it runs.  main is one sequential thread: it always takes its
\* next step.
InitLoop == MainEntry(TRUE, {FALSE})
SpecLoop == InitLoop /\ [][NextMain]_vars /\ WF_vars(NextMain)

\* ------------------------------------------------- renderer arithmetic
\* The float quantities of the renderers (throughput, colour, pdf) are exact
\* fractions [n, d] in lowest terms with d > 0; d = 0 holds the special values:
\* 1/0 is +inf, -1/0 is -inf and 0/0 is NaN.  Rounding is left out.  A colour
\* is one number: the three channels of an rgb are taken equal.
RECURSIVE GCD(_, _)
GCD(a, b) == IF b = 0 THEN a ELSE GCD(b, a % b)

Abs(x) == IF x < 0 THEN -x ELSE x

Rat(n, d) ==
    IF d = 0 THEN [n |-> IF n > 0 THEN 1 ELSE IF n < 0 THEN -1 ELSE 0, d |-> 0]
    ELSE LET g == GCD(Abs(n), Abs(d))
             s == IF d < 0 THEN -1 ELSE 1
         IN  [n |-> (s * n) \div g, d |-> (s * d) \div g]

RZero == Rat(0, 1)
ROne == Rat(1, 1)
RHalf == Rat(1, 2)
RNaN == Rat(0, 0)
RIsNaN(a) == a.n = 0 /\ a.d = 0

RMul(a, b) == Rat(a.n * b.n, a.d * b.d)
RDiv(a, b) == Rat(a.n * b.d * (IF b.n < 0 THEN -1 ELSE 1), a.d * Abs(b.n))
RAdd(a, b) ==
    IF a.d = 0 /\ b.d = 0 THEN (IF a.n = b.n THEN a ELSE RNaN)
    ELSE Rat(a.n * b.d + b.n * a.d, a.d * b.d)
RLess(a, b) ==
    /\ ~RIsNaN(a)
    /\ ~RIsNaN(b)
    /\ IF a.d = 0 /\ b.d = 0 THEN a.n < b.n ELSE a.n * b.d < b.n * a.d
RLeq(a, b) == ~RIsNaN(a) /\ ~RIsNaN(b) /\ ~RLess(b, a)
RMin(a, b) == IF RLess(b, a) THEN b ELSE a
RMax(a, b) == IF RLess(a, b) THEN b ELSE a

\* ------------------------------------------------------------ materials
BsdfKinds == {"none", "Diffuse", "Glossy", "Specular"}
Signs == {-1, 1}

\* make_sample: sign is the sign of dot(dir, surf.face_normal)
make_sample(below_surface, sign, pdf, color) ==
    IF RLess(RZero, pdf) /\ ((below_surface /\ sign < 0) \/ (~below_surface /\ sign > 0))
    THEN [pdf |-> pdf, color |-> color]
    ELSE [pdf |-> ROne, color |-> RZero]

\* What Bsdf::sample hands to make_sample.  MirrorBsdf and GlassBsdf pass the
\* pdf 1.0f, GlassBsdf asks for a direction below the surface when it refracts.
\* DiffuseBsdf and GlossyPhongBsdf pass the pdf of the drawn direction, which
\* is 0 for a direction in the tangent plane; for a white DiffuseBsdf the
\* colour tex * max(cos, 0) * kd is that pdf.
SampleInputs(bsdf) ==
    IF bsdf = "Specular"
    THEN {[below |-> b, sign |-> s, pdf |-> ROne, color |-> ROne] : b \in BOOLEAN, s \in Signs}
    ELSE {[below |-> FALSE, sign |-> s, pdf |-> p, color |-> p] : s \in Signs, p \in {RZero, RHalf}}

Degenerate(in) ==
    \/ ~RLess(RZero, in.pdf)
    \/ (in.below /\ in.sign >= 0)
    \/ (~in.below /\ in.sign <= 0)

BsdfSampleOf(in) == make_sample(in.below, in.sign, in.pdf, in.color)

NoSample == [pdf |-> RZero, color |-> RZero]
Cosines == {ROne}
Uniforms == {RZero, RHalf, Rat(99, 100)}

\* ----------------------------------------- PathTracingRenderer::path_trace
MaxPathLen == 5
MaxLights == 2

\* the light sample of next event estimation and the BSDF values for its
\* direction; light_pdf is the solid-angle pdf of lines 110-119 and intensity
\* the light_contribution of lines 140-145
LightPdfs == {RHalf, ROne}

NeeInput(occluded, light_pdf, bsdf_pdf) ==
    [occluded |-> occluded, light_pdf |-> light_pdf, bsdf_val |-> ROne,
     bsdf_pdf |-> bsdf_pdf, cos |-> ROne, intensity |-> ROne]

NeeInputs ==
    {NeeInput(TRUE, ROne, RZero)}
        \cup {NeeInput(FALSE, lp, bp) : lp \in LightPdfs, bp \in {RHalf}}

NeeAlways(bsdf, num_lights) == TRUE

NeeApplies(bsdf, num_lights) == bsdf # "Specular" /\ num_lights # 0

\* the samples are drawn only where the code draws them
NeeInputsAt(bsdf, num_lights) ==
    IF bsdf # "none" /\ NeeApplies(bsdf, num_lights) THEN NeeInputs
    ELSE {NeeInput(TRUE, ROne, RZero)}

EnteringAt(emitter) == IF emitter THEN BOOLEAN ELSE {TRUE}

UniformsAt(path_len) == IF path_len > 3 THEN Uniforms ELSE {RZero}

\* lines 70-78
EmitterIntensity == ROne

PtEmitted(throughput, emitter, entering, intensity) ==
    IF emitter /\ entering THEN RMul(throughput, intensity) ELSE RZero

\* lines 88-152
PtDirect(throughput, bsdf, num_lights, nee) ==
    IF NeeApplies(bsdf, num_lights) /\ ~nee.occluded
    THEN LET sum_pdf == RAdd(nee.light_pdf, nee.bsdf_pdf)
             w_ne == IF RLess(RZero, sum_pdf) THEN RDiv(nee.light_pdf, sum_pdf) ELSE RZero
         IN  RDiv(RMul(RMul(RMul(RMul(throughput, nee.bsdf_val), nee.intensity),
                            nee.cos), w_ne),
                  RMul(nee.light_pdf, Rat(1, num_lights)))
    ELSE RZero

NoVertex ==
    [hit |-> FALSE, at |-> 0, emitter |-> FALSE, entering |-> FALSE, bsdf |-> "none",
     before |-> RZero, throughput |-> ROne, emitted |-> RZero, direct |-> RZero,
     sampled |-> FALSE, degenerate |-> FALSE, sample |-> NoSample, stored |-> 0,
     lit |-> FALSE, from |-> [primary |-> TRUE, specular |-> FALSE, pdf |-> ROne],
     ended |-> "init"]

PtEnd(r, v, color, why) ==
    [r EXCEPT !.pc = "done", !.color = color, !.v = [v EXCEPT !.ended = why]]

\* lines 163-172 and the loop header
PtSample(r, v, color, throughput, in, cos) ==
    LET s == BsdfSampleOf(in)
        w == [v EXCEPT !.sampled = TRUE, !.degenerate = Degenerate(in), !.sample = s]
    IN  IF RLeq(s.pdf, RZero) THEN PtEnd(r, w, color, "pdf")
        ELSE [r EXCEPT !.color = color,
                       !.throughput = RMul(throughput, RDiv(RMul(s.color, cos), s.pdf)),
                       !.path_len = @ + 1,
                       !.pc = IF r.path_len + 1 < r.max_path_len THEN "loop" ELSE "done",
                       !.from = [primary |-> FALSE, specular |-> v.bsdf = "Specular",
                                 pdf |-> s.pdf],
                       !.v = [w EXCEPT !.ended = IF r.path_len + 1 < r.max_path_len
                                                 THEN "" ELSE "length"]]

\* lines 155-161
PtRoulette(r, v, color, u, in, cos) ==
    IF r.path_len > 3
    THEN LET rr_prob == RMin(Rat(19, 20), r.throughput) IN
           IF RLess(rr_prob, u) THEN PtEnd(r, v, color, "roulette")
           ELSE PtSample(r, v, color, RDiv(r.throughput, rr_prob), in, cos)
    ELSE PtSample(r, v, color, r.throughput, in, cos)

\* one iteration of the loop of path_trace
PtVertex(r, emitter, entering, bsdf, nee, u, in, cos) ==
    LET emitted == PtEmitted(r.throughput, emitter, entering, EmitterIntensity)
        direct == IF bsdf = "none" THEN RZero
                  ELSE PtDirect(r.throughput, bsdf, r.num_lights, nee)
        v == [NoVertex EXCEPT !.hit = TRUE, !.at = r.path_len, !.emitter = emitter, !.entering = entering,
                              !.bsdf = bsdf, !.before = r.color,
                              !.throughput = r.throughput, !.emitted = emitted,
                              !.direct = direct, !.from = r.from, !.ended = ""]
    IN  IF bsdf = "none" THEN PtEnd(r, v, RAdd(r.color, emitted), "black body")
        ELSE PtRoulette(r, v, RAdd(RAdd(r.color, emitted), direct), u, in, cos)

PtMiss ==
    /\ rend.kind = "pt"
    /\ rend.pc = "loop"
    /\ rend' = PtEnd(rend, [NoVertex EXCEPT !.before = rend.color,
                                            !.throughput = rend.throughput,
                                            !.from = rend.from], rend.color, "miss")
    /\ UNCHANGED <<bvhVars, tiles, mainst>>

PtHit ==
    /\ rend.kind = "pt"
    /\ rend.pc = "loop"
    /\ \E emitter \in BOOLEAN, bsdf \in BsdfKinds,
          u \in UniformsAt(rend.path_len), cos \in Cosines :
         \E entering \in EnteringAt(emitter),
            nee \in NeeInputsAt(bsdf, rend.num_lights), in \in SampleInputs(bsdf) :
            rend' = PtVertex(rend, emitter, entering, bsdf, nee, u, in, cos)
    /\ UNCHANGED <<bvhVars, tiles, mainst>>

InitPt ==
    \E num_lights \in 0..MaxLights :
        rend = [kind |-> "pt", pc |-> "loop", num_lights |-> num_lights,
                max_path_len |-> MaxPathLen, path_len |-> 0, color |-> RZero,
                throughput |-> ROne, v |-> NoVertex,
                from |-> [primary |-> TRUE, specular |-> FALSE, pdf |-> ROne]]

\* -------------------------------------- PhotonMappingRenderer::trace_photons
\* A photon is (contrib, surf, in_dir); surf and in_dir are those of the vertex
\* it is stored at, which the model names by its path_len.
Photon(contrib, path_len) == [contrib |-> contrib, at |-> path_len]

\* the light sample drawn at a Glossy vertex (lines 167-171)
GlossyInputs == {[cos_positive |-> c, occluded |-> o] : c \in BOOLEAN, o \in BOOLEAN}
GlossyInputsAt(bsdf) ==
    IF bsdf = "Glossy" THEN GlossyInputs ELSE {[cos_positive |-> FALSE, occluded |-> TRUE]}

\* russian_roulette (random.h): the luminance of a colour with equal channels
\* is the channel
russian_roulette(c, max) == RMin(max, RMul(c, Rat(2, 1)))

PhEnd(r, v, why) == [r EXCEPT !.pc = "done", !.v = [v EXCEPT !.ended = why]]

PhContinue(r, v, throughput) ==
    [r EXCEPT !.throughput = throughput,
              !.path_len = @ + 1,
              !.pc = IF r.path_len + 1 < r.max_path_len THEN "loop" ELSE "done",
              !.from = [primary |-> FALSE, specular |-> v.bsdf = "Specular",
                        pdf |-> v.sample.pdf],
              !.v = [v EXCEPT !.ended = IF r.path_len + 1 < r.max_path_len
                                        THEN "" ELSE "length"]]

\* lines 165-195
PhGlossy(r, v, ls, in) ==
    LET s == BsdfSampleOf(in)
        store == ls.cos_positive /\ ~ls.occluded
        p == IF store THEN Append(r.photons, Photon(r.throughput, r.path_len))
             ELSE r.photons
        w == [v EXCEPT !.lit = TRUE, !.stored = IF store THEN 1 ELSE 0,
                       !.sampled = TRUE, !.degenerate = Degenerate(in), !.sample = s]
    IN  IF RLeq(s.pdf, RZero) THEN PhEnd([r EXCEPT !.photons = p], w, "pdf")
        ELSE PhContinue([r EXCEPT !.photons = p], w,
                        RMul(r.throughput, RDiv(s.color, s.pdf)))

\* lines 214-221
PhRoulette(r, v, throughput, u) ==
    IF r.path_len > 3
    THEN LET rr_prob == russian_roulette(throughput, Rat(3, 4)) IN
           IF RLess(rr_prob, u)
           THEN PhEnd([r EXCEPT !.throughput = throughput], v, "roulette")
           ELSE PhContinue(r, v, RDiv(throughput, rr_prob))
    ELSE PhContinue(r, v, throughput)

\* lines 197-212
PhOther(r, v, in, u) ==
    LET s == BsdfSampleOf(in)
        store == v.bsdf # "Specular"
        w == [v EXCEPT !.sampled = TRUE, !.degenerate = Degenerate(in), !.sample = s]
    IN  IF RLeq(s.pdf, RZero) THEN PhEnd(r, w, "pdf")
        ELSE PhRoulette([r EXCEPT !.photons = IF store
                                     THEN Append(@, Photon(r.throughput, r.path_len))
                                     ELSE @],
                        [w EXCEPT !.stored = IF store THEN 1 ELSE 0],
                        RMul(r.throughput, RDiv(s.color, s.pdf)), u)

\* one iteration of the loop of trace_photons
PhVertex(r, bsdf, ls, in, u) ==
    LET v == [NoVertex EXCEPT !.hit = TRUE, !.at = r.path_len, !.bsdf = bsdf, !.throughput = r.throughput,
                              !.from = r.from, !.ended = ""]
    IN  IF bsdf = "none" THEN PhEnd(r, v, "black body")
        ELSE IF bsdf = "Glossy" THEN PhGlossy(r, v, ls, in)
        ELSE PhOther(r, v, in, u)

PhMiss ==
    /\ rend.kind = "photons"
    /\ rend.pc = "loop"
    /\ rend' = PhEnd(rend, [NoVertex EXCEPT !.throughput = rend.throughput,
                                            !.from = rend.from], "miss")
    /\ UNCHANGED <<bvhVars, tiles, mainst>>

PhHit ==
    /\ rend.kind = "photons"
    /\ rend.pc = "loop"
    /\ \E bsdf \in BsdfKinds, u \in UniformsAt(rend.path_len) :
         \E ls \in GlossyInputsAt(bsdf), in \in SampleInputs(bsdf) :
            rend' = PhVertex(rend, bsdf, ls, in, u)
    /\ UNCHANGED <<bvhVars, tiles, mainst>>

\* lines 138-151: the light is drawn among at least one light, and the
\* throughput starts at emission.intensity / total_light_pdf
InitPhotons ==
    \E num_lights \in 1..MaxLights, emitted \in {RHalf, ROne} :
        rend = [kind |-> "photons", pc |-> "loop", num_lights |-> num_lights,
                max_path_len |-> MaxPathLen, path_len |-> 0, photons |-> <<>>,
                throughput |-> RDiv(emitted, Rat(1, num_lights)), v |-> NoVertex,
                from |-> [primary |-> TRUE, specular |-> FALSE, pdf |-> ROne]]

InitPaths ==
    /\ BvhIdle
    /\ tiles = TilesIdle
    /\ mainst = MainIdle
    /\ (InitPt \/ InitPhotons)

NextPaths == PtMiss \/ PtHit \/ PhMiss \/ PhHit

SpecPaths == InitPaths /\ [][NextPaths]_vars

\* ------------------------------------- PhotonMappingRenderer::trace_eye_path
EyeMaxPathLen == 10

\* the density estimate summed by photon_map.query at the vertex
Gathered == {RZero, RHalf}
GatheredAt(bsdf) == IF bsdf \in {"Diffuse", "Glossy"} THEN Gathered ELSE {RZero}

\* sampler() of the roulette is drawn at Specular vertices with path_len > 1
EyeUniformsAt(bsdf, path_len) ==
    IF bsdf = "Specular" /\ path_len > 1 THEN Uniforms ELSE {RZero}

EyeEnd(r, v, color, why) ==
    [r EXCEPT !.pc = "done", !.color = color, !.result = color,
              !.v = [v EXCEPT !.ended = why]]

\* lines 244-252
EyeEmitted(lastBounceGlossy, emitter, entering, intensity) ==
    IF emitter /\ entering /\ ~lastBounceGlossy THEN intensity ELSE RZero

\* lines 259-280: bsdf_val, Li and cos_theta are 1, light_pdf is 1
EyeDirect(num_lights, ls) ==
    IF ls.cos_positive /\ ~ls.occluded
    THEN RDiv(ROne, RMul(ROne, Rat(1, num_lights)))
    ELSE RZero

\* lines 289-316
EyeGather(r, v, color, acc) ==
    [r EXCEPT !.pc = "done", !.color = color, !.result = RAdd(color, acc),
              !.gathers = @ + 1, !.lastBounceGlossy = FALSE,
              !.v = [v EXCEPT !.ended = "gather"]]

\* lines 257-287
EyeGlossy(r, v, color, ls, in, acc) ==
    LET s == BsdfSampleOf(in)
        direct == EyeDirect(r.num_lights, ls)
        w == [v EXCEPT !.lit = TRUE, !.direct = direct, !.sampled = TRUE,
                       !.degenerate = Degenerate(in), !.sample = s]
    IN  IF RLeq(s.pdf, RZero) THEN EyeEnd(r, w, RAdd(color, direct), "pdf")
        ELSE EyeGather([r EXCEPT !.lastBounceGlossy = TRUE], w, RAdd(color, direct), acc)

\* the loop header; the local pdf of lines 229, 326 and 335 is written and
\* never read, it is not part of the state
EyeContinue(r, v, color) ==
    [r EXCEPT !.color = color,
              !.result = IF r.path_len + 1 < r.max_path_len THEN @ ELSE color,
              !.path_len = @ + 1,
              !.pc = IF r.path_len + 1 < r.max_path_len THEN "loop" ELSE "done",
              !.v = [v EXCEPT !.ended = IF r.path_len + 1 < r.max_path_len
                                        THEN "" ELSE "length"]]

\* lines 329-336
EyeRoulette(r, v, color, u) ==
    IF r.path_len > 1
    THEN LET q == RMin(Rat(19, 20), v.sample.color) IN
           IF RLess(q, u) THEN EyeEnd(r, v, color, "roulette")
           ELSE EyeContinue(r, v, color)
    ELSE EyeContinue(r, v, color)

\* lines 319-336
EyeSpecular(r, v, color, in, u) ==
    LET s == BsdfSampleOf(in)
        w == [v EXCEPT !.sampled = TRUE, !.degenerate = Degenerate(in), !.sample = s]
    IN  IF RLeq(s.pdf, RZero) THEN EyeEnd(r, w, color, "pdf")
        ELSE EyeRoulette(r, w, color, u)

\* one iteration of the loop of trace_eye_path
EyeVertex(r, emitter, entering, bsdf, ls, in, u, acc) ==
    LET emitted == EyeEmitted(r.lastBounceGlossy, emitter, entering, EmitterIntensity)
        v == [NoVertex EXCEPT !.hit = TRUE, !.at = r.path_len, !.emitter = emitter,
                              !.entering = entering, !.bsdf = bsdf, !.before = r.color,
                              !.emitted = emitted, !.ended = ""]
        color == RAdd(r.color, emitted)
    IN  IF bsdf = "none" THEN EyeEnd(r, v, color, "black body")
        ELSE IF bsdf = "Glossy" THEN EyeGlossy(r, v, color, ls, in, acc)
        ELSE IF bsdf = "Diffuse" THEN EyeGather(r, v, color, acc)
        ELSE EyeSpecular(r, v, color, in, u)

EyeMiss ==
    /\ rend.kind = "eye"
    /\ rend.pc = "loop"
    /\ rend' = EyeEnd(rend, [NoVertex EXCEPT !.before = rend.color, !.at = rend.path_len],
                      rend.color, "miss")
    /\ UNCHANGED <<bvhVars, tiles, mainst>>

EyeHit ==
    /\ rend.kind = "eye"
    /\ rend.pc = "loop"
    /\ \E emitter \in BOOLEAN, bsdf \in BsdfKinds :
         \E entering \in EnteringAt(emitter), ls \in GlossyInputsAt(bsdf),
            in \in SampleInputs(bsdf), u \in EyeUniformsAt(bsdf, rend.path_len),
            acc \in GatheredAt(bsdf) :
            rend' = EyeVertex(rend, emitter, entering, bsdf, ls, in, u, acc)
    /\ UNCHANGED <<bvhVars, tiles, mainst>>

\* lines 227-232; the light of line 260 is drawn among at least one light
InitEye ==
    /\ BvhIdle
    /\ tiles = TilesIdle
    /\ mainst = MainIdle
    /\ \E num_lights \in 1..MaxLights :
        rend = [kind |-> "eye", pc |-> "loop", num_lights |-> num_lights,
                max_path_len |-> EyeMaxPathLen, path_len |-> 0, color |-> RZero,
                result |-> RZero, lastBounceGlossy |-> FALSE,
                gathers |-> 0, v |-> NoVertex]

NextEye == EyeMiss \/ EyeHit

SpecEye == InitEye /\ [][NextEye]_vars

\* ------------------------------------- cosine hemisphere, DiffuseBsdf
\* Directions are vectors in units of 1 / DirUnit.  The random number u is a
\* square, in units of 1 / DirUnit^2, such that 1 - u is a square as well, and
\* v is a number of quarter turns, so that sqrtf, cosf and sinf are exact.  A
\* pdf is c * pi^k, kept as [c |-> fraction, pi |-> k].
DirUnit == 65
Radials == {0, 16, 25, 33, 39, 52, 56, 60, 63, 65}
QuarterTurns == 0..3

Sqrtf(q) == CHOOSE r \in 0..DirUnit : r * r = q
Cosf(v) == <<1, 0, -1, 0>>[v + 1]
Sinf(v) == <<0, 1, 0, -1>>[v + 1]

PiVal(c, k) == [c |-> c, pi |-> k]
DirSample(dir, pdf) == [dir |-> dir, pdf |-> pdf]

cosine_hemisphere_pdf_over_pi(c) == PiVal(Rat(c, DirUnit), -1)

\* random.h:55-61: the first return statement is the one that runs
cosine_hemisphere_pdf(c) == PiVal(ROne, 0)

\* random.h:64-86: coords is not used, the direction stays in local coordinates
SampleDir(x, y) == <<x, y, Sqrtf(DirUnit * DirUnit - x * x - y * y)>>
sample_cosine_hemisphere(coords, u, v) ==
    LET dir == SampleDir(Sqrtf(u) * Cosf(v), Sqrtf(u) * Sinf(v))
    IN  DirSample(dir, PiVal(Rat(dir[3], DirUnit), -1))

\* the shading frames: the normal n along an axis (tangent and bitangent are
\* not read), and the geometric normal of the surface
Normals == {<<0, 0, 1>>, <<0, 0, -1>>, <<1, 0, 0>>, <<-1, 0, 0>>, <<0, 1, 0>>, <<0, -1, 0>>}

\* DiffuseBsdf::sample, the direction and the pdf of the BsdfSample
DiffuseBsdf_sample(coords, face_normal, u, v) ==
    LET sample == sample_cosine_hemisphere(coords, u, v)
        in == [below |-> FALSE, sign |-> Sign(Dot(sample.dir, face_normal)),
               pdf |-> sample.pdf.c, color |-> sample.pdf.c]
    IN  [in |-> sample.dir,
         pdf |-> IF Degenerate(in) THEN PiVal(BsdfSampleOf(in).pdf, 0) ELSE sample.pdf]

\* DiffuseBsdf::pdf
DiffuseBsdf_pdf(in, coords) == cosine_hemisphere_pdf(Max2(Dot(in, coords.n), 0))

InitDiffuse ==
    /\ BvhIdle
    /\ tiles = TilesIdle
    /\ mainst = MainIdle
    /\ \E n \in Normals, face_normal \in Normals, r \in Radials, v \in QuarterTurns :
         /\ Dot(n, face_normal) >= 0
         /\ rend = [kind |-> "diffuse", pc |-> "input", coords |-> [n |-> n],
                    face_normal |-> face_normal, u |-> r * r, v |-> v,
                    sample |-> [in |-> <<0, 0, 0>>, pdf |-> PiVal(RZero, 0)],
                    pdf |-> PiVal(RZero, 0)]

DiffuseSample ==
    /\ rend.kind = "diffuse"
    /\ rend.pc = "input"
    /\ rend' = [rend EXCEPT !.pc = "sampled",
                            !.sample = DiffuseBsdf_sample(rend.coords, rend.face_normal,
                                                          rend.u, rend.v)]
    /\ UNCHANGED <<bvhVars, tiles, mainst>>

DiffusePdf ==
    /\ rend.kind = "diffuse"
    /\ rend.pc = "sampled"
    /\ rend' = [rend EXCEPT !.pc = "evaluated",
                            !.pdf = DiffuseBsdf_pdf(rend.sample.in, rend.coords)]
    /\ UNCHANGED <<bvhVars, tiles, mainst>>

NextDiffuse == DiffuseSample \/ DiffusePdf

SpecDiffuse == InitDiffuse /\ [][NextDiffuse]_vars

\* ------------------------------------ PhotonMappingRenderer::render, radius
\* The iteration counter, the static base radius and the gather radius of the
\* photon mapper.  A radius is kept as the pair <<base, k>> that stands for
\* base / pow(k, 0.5f * (1.0f - alpha)): base is the float base_radius and k
\* the float that float(iter) yields.
MaxPpmSteps == 7

\* float has a 24 bit significand: every integer up to 2^24 is a float, above
\* it only every second one is, and the conversion rounds to nearest, ties to
\* the even significand.
FloatExact == 2 ^ 24

ToFloat(n) ==
    IF n <= FloatExact \/ n % 2 = 0 THEN n
    ELSE IF (n + 1) % 4 = 0 THEN n + 1 ELSE n - 1

\* estimate_pixel_size: the mean distance of neighbouring primary hits, or
\* 1.0f when no primary ray hits anything.
PixelSizes == {1, 2}

AlwaysEstimate(iter, base_radius, est) == 2 * est

\* the function-local static base_radius is written on the call that finds
\* iter == 1 and on no other
NextBaseRadius(iter, base_radius, est) == IF iter = 1 THEN 2 * est ELSE base_radius

PpmRadius(base_radius, iter) == [base |-> base_radius, k |-> ToFloat(iter)]

\* radii of one base compare as their k do, the larger k being the smaller radius
RadiusLess(r1, r2) == r1.base = r2.base /\ r1.k > r2.k
RadiusLeq(r1, r2) == r1.base = r2.base /\ r1.k >= r2.k

PpmState(iter_set, iter, base_radius, radius, prev_radius, calls, first_base) ==
    [kind |-> "ppm", iter_set |-> iter_set, iter |-> iter, base_radius |-> base_radius, radius |-> radius,
     prev_radius |-> prev_radius, calls |-> calls, first_base |-> first_base, steps |-> 0]

\* The renderer as constructed (iter and radius are not initialised: iter_set is
\* FALSE and first_base, the base radius of the first call, is 0 while there
\* was none; the static base_radius is 1.0f), or a renderer that main reset and that has since
\* rendered calls frames.
LongRuns == {0, FloatExact - 2}

InitPpm ==
    /\ BvhIdle
    /\ tiles = TilesIdle
    /\ mainst = MainIdle
    /\ \/ rend = PpmState(FALSE, 0, 1, Unset, Unset, 0, 0)
       \/ \E est \in PixelSizes, calls \in LongRuns \ {0} :
              rend = PpmState(TRUE, calls + 1, 2 * est, PpmRadius(2 * est, calls),
                              PpmRadius(2 * est, calls - 1), calls, 2 * est)

PpmReset ==
    /\ rend.kind = "ppm"
    /\ rend.steps < MaxPpmSteps
    /\ rend' = [rend EXCEPT !.iter_set = TRUE, !.iter = 1, !.calls = 0, !.first_base = 0,
                            !.prev_radius = Unset, !.steps = @ + 1]
    /\ UNCHANGED <<bvhVars, tiles, mainst>>

\* main resets the renderer before its first render call (main.cpp:217-225),
\* so render never reads the uninitialised iter.
PpmRender ==
    /\ rend.kind = "ppm"
    /\ rend.steps < MaxPpmSteps
    /\ rend.iter_set
    /\ \E est \in PixelSizes :
         LET base == NextBaseRadius(rend.iter, rend.base_radius, est) IN
           rend' = [rend EXCEPT !.base_radius = base,
                                !.radius = PpmRadius(base, rend.iter),
                                !.prev_radius = IF rend.calls = 0 THEN Unset ELSE rend.radius,
                                !.iter = @ + 1,
                                !.calls = @ + 1,
                                !.first_base = IF rend.calls = 0 THEN base ELSE @,
                                !.steps = @ + 1]
    /\ UNCHANGED <<bvhVars, tiles, mainst>>

NextPpm == PpmReset \/ PpmRender

SpecPpm == InitPpm /\ [][NextPpm]_vars

\* ----------------------------------------- PhotonMappingRenderer::render
\* One render call of the photon mapper: the photon pass and its merges, the
\* build of the hash grid, and the eye pass over the tiles.
\* Largest width and height of the image, in pixels.
MaxPassW == 3
MaxPassH == 2
\* batch_size of the thread variant (32 in the source, scaled here).
MaxBatch == 2
batch_size == MaxBatch

\* The number of photons the k-th light path of the random stream of seed
\* stores: it is decided by the scene and by the stream.
YieldKinds == {"dark", "mixed"}
Yield(kind, seed, k) == IF kind = "dark" THEN 0 ELSE (seed + k) % 3

\* A photon, named by the render call, the buffer and the place in the buffer
\* it was pushed to.
PassPhoton(iter, by, k) == [iter |-> iter, by |-> by, k |-> k]

\* trace_photons(photon_buffer, sampler): the buffer after one more light path
TracePath(buffer, n, iter, by) ==
    buffer \o [k \in 1..n |-> PassPhoton(iter, by, Len(buffer) + k)]

\* the buffer after light paths first .. last of the stream
RECURSIVE TracePaths(_, _, _, _, _, _)
TracePaths(buffer, kind, iter, by, first, last) ==
    IF first > last THEN buffer
    ELSE TracePaths(TracePath(buffer, Yield(kind, by, first), iter, by),
                    kind, iter, by, first + 1, last)

\* thread variant: the number of batches, and the paths of batch batch_id
BatchCount(light_path_count) ==
    light_path_count \div batch_size
        + (IF light_path_count % batch_size # 0 THEN 1 ELSE 0)
BatchNum(batch_id, light_path_count) ==
    Min2((batch_id + 1) * batch_size, light_path_count) - batch_id * batch_size

\* the tasks of the photon pass: the threads of the parallel region, or the
\* invocations of the lambda of parallel_for
PassTasks(use_std_thread, light_path_count) ==
    IF use_std_thread THEN 0..(BatchCount(light_path_count) - 1) ELSE Workers
NewPassTask(use_std_thread) ==
    [pc |-> IF use_std_thread THEN "batch" ELSE "loop",
     buffer |-> <<>>, traced |-> 0, end |-> 0]

LockFree == -1
\* std::lock_guard guard(photon_mutex) / #pragma omp critical
CanLockAlways(lock) == TRUE
CanLock(lock) == lock = LockFree

\* the end of the parallel region / the return of parallel_for
AlwaysJoined(task) == TRUE
Joined(task) == \A t \in DOMAIN task : task[t].pc = "done"

GridEmpty == [state |-> "empty", of |-> <<>>, iter |-> 0]

EyeTiles(use_std_thread, w, h) ==
    IF use_std_thread
    THEN ThreadTiles(0, 0, w, h, default_tile_width, default_tile_height)
    ELSE OmpTiles(0, 0, w, h, default_tile_width, default_tile_height)

PassCount == rend.width * rend.height

\* render up to the photon pass: photons.clear() and the start of the tasks
PpmRenderBegin ==
    /\ rend.kind = "pass"
    /\ rend.pc = "idle"
    /\ rend.iter <= MaxIter
    /\ rend' = [rend EXCEPT
           !.pc = "pass",
           !.light_path_count = PassCount,
           !.photons = <<>>,
           !.next = 0,
           !.lock = LockFree,
           !.task = [t \in PassTasks(rend.use_std_thread, PassCount) |->
                         NewPassTask(rend.use_std_thread)]]
    /\ UNCHANGED <<bvhVars, tiles, mainst>>

\* thread variant: the loop of one batch
BatchTrace(t) ==
    /\ rend.kind = "pass"
    /\ rend.pc = "pass"
    /\ t \in DOMAIN rend.task
    /\ rend.task[t].pc = "batch"
    /\ rend' = [rend EXCEPT
           !.task[t] = [@ EXCEPT
               !.pc = "lock",
               !.traced = Max2(BatchNum(t, rend.light_path_count), 0),
               !.buffer = TracePaths(<<>>, rend.yield, rend.iter, t, 1,
                                     BatchNum(t, rend.light_path_count))]]
    /\ UNCHANGED <<bvhVars, tiles, mainst>>

\* OpenMP variant: a thread takes the next iteration of the dynamic loop,
\* or leaves the loop without waiting
OmpTrace(t) ==
    /\ rend.kind = "pass"
    /\ rend.pc = "pass"
    /\ t \in DOMAIN rend.task
    /\ rend.task[t].pc = "loop"
    /\ rend' = IF rend.next < rend.light_path_count
               THEN [rend EXCEPT
                        !.next = @ + 1,
                        !.task[t] = [@ EXCEPT
                            !.traced = @ + 1,
                            !.buffer = TracePath(@, Yield(rend.yield, t, rend.task[t].traced + 1),
                                                 rend.iter, t)]]
               ELSE [rend EXCEPT !.task[t] = [@ EXCEPT !.pc = "lock"]]
    /\ UNCHANGED <<bvhVars, tiles, mainst>>

\* the task enters the critical section; insert reads photons.end()
MergeLock(t) ==
    /\ rend.kind = "pass"
    /\ rend.pc \in {"pass", "build", "built", "eye"}
    /\ t \in DOMAIN rend.task
    /\ rend.task[t].pc = "lock"
    /\ CanLock(rend.lock)
    /\ rend' = [rend EXCEPT !.lock = t,
                            !.task[t] = [@ EXCEPT !.pc = "insert",
                                                  !.end = Len(rend.photons)]]
    /\ UNCHANGED <<bvhVars, tiles, mainst>>

\* photons.insert(photons.end(), buffer.begin(), buffer.end()) and the end of
\* the critical section
MergeInsert(t) ==
    /\ rend.kind = "pass"
    /\ rend.pc \in {"pass", "build", "built", "eye"}
    /\ t \in DOMAIN rend.task
    /\ rend.task[t].pc = "insert"
    /\ rend' = [rend EXCEPT
           !.photons = SubSeq(@, 1, rend.task[t].end) \o rend.task[t].buffer,
           !.lock = LockFree,
           !.task[t] = [@ EXCEPT !.pc = "done"]]
    /\ UNCHANGED <<bvhVars, tiles, mainst>>

\* photon_map.build(...) is called
GridBuildBegin ==
    /\ rend.kind = "pass"
    /\ rend.pc = "pass"
    /\ Joined(rend.task)
    /\ rend' = [rend EXCEPT !.pc = "build", !.grid = [@ EXCEPT !.state = "building"]]
    /\ UNCHANGED <<bvhVars, tiles, mainst>>

\* photon_map.build(...) returns
GridBuildEnd ==
    /\ rend.kind = "pass"
    /\ rend.pc = "build"
    /\ rend' = [rend EXCEPT !.pc = "built",
                            !.grid = [state |-> "built", of |-> rend.photons,
                                      iter |-> rend.iter]]
    /\ UNCHANGED <<bvhVars, tiles, mainst>>

\* process_tiles is called
EyeDispatch ==
    /\ rend.kind = "pass"
    /\ rend.pc = "built"
    /\ rend' = [rend EXCEPT
           !.pc = "eye",
           !.eye = [todo |-> EyeTiles(rend.use_std_thread, rend.width, rend.height),
                    work |-> [w \in Workers |-> NoTile], started |-> 0]]
    /\ UNCHANGED <<bvhVars, tiles, mainst>>

\* a worker enters the callback of a tile: trace_eye_path reads photons and
\* photon_map for each pixel of the tile
EyeTileStart(w) ==
    /\ rend.kind = "pass"
    /\ rend.pc = "eye"
    /\ rend.eye.work[w] = NoTile
    /\ \E t \in rend.eye.todo :
           rend' = [rend EXCEPT !.eye.todo = @ \ {t},
                                !.eye.work[w] = t,
                                !.eye.started = @ + 1]
    /\ UNCHANGED <<bvhVars, tiles, mainst>>

EyeTileEnd(w) ==
    /\ rend.kind = "pass"
    /\ rend.pc = "eye"
    /\ rend.eye.work[w] # NoTile
    /\ rend' = [rend EXCEPT !.eye.work[w] = NoTile]
    /\ UNCHANGED <<bvhVars, tiles, mainst>>

\* process_tiles returns; iter++
PpmRenderEnd ==
    /\ rend.kind = "pass"
    /\ rend.pc = "eye"
    /\ rend.eye.todo = {}
    /\ \A w \in Workers : rend.eye.work[w] = NoTile
    /\ rend' = [rend EXCEPT !.pc = "idle", !.iter = @ + 1]
    /\ UNCHANGED <<bvhVars, tiles, mainst>>

\* the renderer after reset() (iter = 1), for every image size and both builds
InitPass ==
    /\ BvhIdle
    /\ tiles = TilesIdle
    /\ mainst = MainIdle
    /\ \E w \in 1..MaxPassW, h \in 1..MaxPassH, std \in BOOLEAN, yield \in YieldKinds :
           rend = [kind |-> "pass", pc |-> "idle", use_std_thread |-> std,
                   width |-> w, height |-> h, light_path_count |-> 0,
                   yield |-> yield, iter |-> 1, photons |-> <<>>, next |-> 0,
                   lock |-> LockFree, task |-> <<>>, grid |-> GridEmpty,
                   eye |-> [todo |-> {}, work |-> [k \in Workers |-> NoTile],
                            started |-> 0]]

PassTaskIds == 0..Max2(MaxWorkers, BatchCount(MaxPassW * MaxPassH))

NextPass ==
    \/ PpmRenderBegin
    \/ \E t \in PassTaskIds : BatchTrace(t)
    \/ \E t \in PassTaskIds : OmpTrace(t)
    \/ \E t \in PassTaskIds : MergeLock(t)
    \/ \E t \in PassTaskIds : MergeInsert(t)
    \/ GridBuildBegin
    \/ GridBuildEnd
    \/ EyeDispatch
    \/ \E w \in Workers : EyeTileStart(w)
    \/ \E w \in Workers : EyeTileEnd(w)
    \/ PpmRenderEnd

SpecPass == InitPass /\ [][NextPass]_vars

\* ------------------------------------------------------ properties (BVH)
\* The nodes reachable from node i through the child links.
RECURSIVE ReachableFrom(_)
ReachableFrom(i) ==
    IF is_leaf(nodes[i]) THEN {i}
    ELSE {i} \cup ReachableFrom(nodes[i].child) \cup ReachableFrom(nodes[i].child + 1)
ReachableLeaves == {i \in ReachableFrom(0) : is_leaf(nodes[i])}
\* The prim_ids slots of leaf i that hold source triangle t.
SlotsOf(i, t) ==
    {j \in nodes[i].child..(nodes[i].child + nodes[i].num - 1) : At(prims[1], j) = t}
LeavesHolding(t) == {i \in ReachableLeaves : SlotsOf(i, t) # {}}

\* Testing the ray against every source triangle in turn, keeping the nearest.
RECURSIVE BruteForceFrom(_, _)
BruteForceFrom(i, h) ==
    IF i >= NumTris THEN h
    ELSE LET r == intersect_ray_tri(ray, SrcTri(i), h.t)
         IN BruteForceFrom(i + 1, IF r.hit THEN [tri |-> i, t |-> r.t] ELSE h)
BruteForce == BruteForceFrom(0, [tri |-> -1, t |-> ray.tmax])
\* Source triangle i is hit by the ray at distance t inside (tmin, tmax).
HitsAt(i, t) ==
    /\ i \in 0..(NumTris - 1)
    /\ LET r == intersect_ray_tri(ray, SrcTri(i), ray.tmax) IN r.hit /\ r.t = t

\* C1: when the closest-hit traversal of a ray has returned, its result is that
\* of testing the ray against every source triangle: the smallest distance in
\* (tmin, tmax) and a triangle hit at that distance, or tri = -1 and t = tmax
\* when no triangle is hit.
C1_ClosestHitIsBruteForce ==
    trav.pc \in {"closest_done", "done"} =>
        /\ hit.t = BruteForce.t
        /\ (BruteForce.tri = -1 => hit.tri = -1)
        /\ (BruteForce.tri >= 0 => HitsAt(hit.tri, hit.t))

\* C2: when both traversals of a ray have returned, the any-hit run reports a
\* hit exactly when the closest-hit run reports a triangle with t <= tmax.
C2_AnyHitIffClosestHit ==
    trav.pc = "done" =>
        (hit_any.tri >= 0 <=> (hit.tri >= 0 /\ hit.t <= ray.tmax))

\* C3 as stated: after the build every source triangle lies in the prim_ids
\* range of exactly one reachable leaf.
C3_ExactlyOneLeaf ==
    bphase = "ready" =>
        \A t \in 0..(NumTris - 1) : Cardinality(LeavesHolding(t)) = 1

\* C3 amended: after the build every source triangle lies in the prim_ids
\* range of at least one reachable leaf, and in no leaf more than once; a
\* triangle that was pre-split can lie in several leaves.
C3_AtLeastOneLeaf ==
    bphase = "ready" =>
        \A t \in 0..(NumTris - 1) :
            /\ LeavesHolding(t) # {}
            /\ \A i \in ReachableLeaves : Cardinality(SlotsOf(i, t)) <= 1
C3_Witness ==
    /\ bphase = "ready"
    /\ \E t \in 0..(NumTris - 1) : Cardinality(LeavesHolding(t)) >= 2

\* C4: once the top-down build is done, and after every detach, every
\* reinsertion and every iteration of optimize, the box of every reachable
\* inner node contains the boxes of both of its children.
C4_InnerBoxContainsChildren ==
    bphase \in {"fix", "optimize", "ready"} =>
        \A i \in ReachableFrom(0) :
            ~is_leaf(nodes[i]) =>
                /\ Contains(NodeBBox(nodes[i]), NodeBBox(nodes[nodes[i].child]))
                /\ Contains(NodeBBox(nodes[i]), NodeBBox(nodes[nodes[i].child + 1]))
C4_Witness ==
    /\ bphase = "optimize"
    /\ opt.pc = "remove"
    /\ opt.i = 1
    /\ nodes[opt.ranks[1]] # nodes[0]

\* C5: after the build every leaf has at least one primitive and its prim_ids
\* range holds source triangle indices in strictly increasing order; every
\* other node has num_prims <= 0.
C5_LeavesSortedDistinct ==
    bphase = "ready" =>
        \A i \in 0..(num_nodes - 1) :
            LET first == nodes[i].child
                num == nodes[i].num
            IN IF i \in ReachableLeaves
               THEN /\ num >= 1
                    /\ \A j \in first..(first + num - 1) :
                           /\ At(prims[1], j) \in 0..(NumTris - 1)
                           /\ j > first => At(prims[1], j - 1) < At(prims[1], j)
               ELSE i \in ReachableFrom(0) => num <= 0
C5_Witness ==
    /\ bphase = "ready"
    /\ \E i \in ReachableLeaves : nodes[i].num >= 2
    /\ \E i \in 0..(num_nodes - 1) : ~is_leaf(nodes[i])

\* ------------------------------------------- properties (tile scheduler)
InTile(p, t) == t.xmin <= p[1] /\ p[1] < t.xmax /\ t.ymin <= p[2] /\ p[2] < t.ymax
TilesOverlap(a, b) == \E p \in Pixels : InTile(p, a) /\ InTile(p, b)

\* C6: the tiles of a render call are pairwise disjoint and cover the image
\* exactly; no pixel is updated twice in the call nor lies in the tiles of two
\* workers, and when the call returns every pixel has been updated once.
C6_TilesPartitionImage ==
    tiles.phase \in {"running", "rendered"} =>
        /\ \A a, b \in TileSet : a # b => ~TilesOverlap(a, b)
        /\ \A t \in TileSet :
               /\ 0 <= t.xmin /\ t.xmin < t.xmax /\ t.xmax <= tiles.w
               /\ 0 <= t.ymin /\ t.ymin < t.ymax /\ t.ymax <= tiles.h
        /\ \A p \in Pixels : \E t \in TileSet : InTile(p, t)
        /\ \A p \in Pixels : tiles.count[p] <= 1
        /\ \A v, w \in Workers :
               v # w /\ tiles.work[v] # NoTile /\ tiles.work[w] # NoTile
                   => ~TilesOverlap(tiles.work[v].tile, tiles.work[w].tile)
        /\ tiles.phase = "rendered" => \A p \in Pixels : tiles.count[p] = 1
C6_Witness ==
    /\ tiles.phase = "rendered"
    /\ Cardinality(TileSet) >= 4
    /\ tiles.w % default_tile_width # 0
    /\ \E i, j \in 1..Len(tiles.seeds) : tiles.seeds[i].worker # tiles.seeds[j].worker

\* C7: within one render iteration two different tiles pass different
\* arguments (xmin ^ ymin, iter) to sampler_seed.
C7_DistinctSeedInputs ==
    \A i, j \in 1..Len(tiles.seeds) :
        tiles.seeds[i].tile # tiles.seeds[j].tile
            => tiles.seeds[i].seed # tiles.seeds[j].seed

\* ------------------------------------------------ properties (main loop)
\* C8: every render call made so far came after a reset() of the renderer it
\* ran and an Image::clear() that both followed the last camera motion or
\* renderer switch; in particular no renderer rendered before its reset().
C8_RenderAfterResetAndClear == mainst.render_ok
C8_Witness ==
    /\ mainst.renders >= 2
    /\ Cardinality(mainst.reset_called) >= 2
    /\ mainst.pc = "display"
    /\ mainst.st.accum = 1

\* C9: whenever the image has been divided by accum, for the display or for
\* the save, accum was at least 1 and equal to the number of render calls summed
\* into the image since it was last cleared.
C9_AccumCountsSamples ==
    mainst.div.site # "none" =>
        /\ mainst.div.accum >= 1
        /\ mainst.div.accum = mainst.div.samples

EndsWith(path, ext) ==
    Len(path) >= Len(ext) /\ SubSeq(path, Len(path) - Len(ext) + 1, Len(path)) = ext
\* C10: whatever the output path, the save runs exactly one writer and divides
\* the pixels by accum exactly once: save_exr on linear values for a path that
\* ends in ".exr", save_png after gamma correction for a path that ends in
\* ".png", and for any other path a warning and save_png only.
C10_OneWriterOneNormalisation ==
    mainst.out.saved =>
        LET out == mainst.out
        IN /\ Len(out.writers) = 1
           /\ out.normalised = 1
           /\ EndsWith(out.path, DotExr) =>
                  out.writers = <<"exr">> /\ out.gamma = 0 /\ ~out.warned
           /\ EndsWith(out.path, DotPng) =>
                  out.writers = <<"png">> /\ out.gamma = 1 /\ ~out.warned
           /\ ~EndsWith(out.path, DotExr) /\ ~EndsWith(out.path, DotPng) =>
                  out.writers = <<"png">> /\ out.warned

\* The runs that end before the loop with return value 1, as the claim lists
\* them, and with the failure of SDL_Init added.
EarlyFailuresClaimed == {"noargs", "load", "renderer"}
EarlyFailures == {"noargs", "load", "sdl", "renderer"}
\* The return value of main in terms of a set F of early failures: 1 with no
\* render call and no writer run for a failure of F, 1 when a writer failed,
\* and 0 in every other run.
\* The kind of a finished run, read from its inputs: a run that got as far as
\* the renderer lookup is "renderer" when --algo names no renderer.
RunKind ==
    IF mainst.start \in {"ok", "renderer"}
    THEN (IF \E i \in 1..NumRenderers : RendererNames[i] = mainst.algo
          THEN "ok" ELSE "renderer")
    ELSE mainst.start
ExitCodes(F) ==
    mainst.pc = "exit" =>
        /\ RunKind \in F =>
               mainst.ret = 1 /\ mainst.renders = 0 /\ mainst.out.writers = <<>>
        /\ (RunKind = "ok" /\ mainst.out.code = 1) => mainst.ret = 1
        /\ (RunKind \notin F /\ ~(RunKind = "ok" /\ mainst.out.code = 1))
               => mainst.ret = 0

Stopped == mainst.pc \in {"save", "exit"}
\* The loop runs with no sample limit.
Unlimited == mainst.start = "ok" /\ mainst.max_samples = 0
\* Rendering is suspended by the selection rectangle of the debug build.
Suspended ==
    /\ ~mainst.ndebug
    /\ ~mainst.st.debug
    /\ ~(mainst.st.debug_xmin >= mainst.st.debug_xmax
            /\ mainst.st.debug_ymin >= mainst.st.debug_ymax)
\* An iteration begins that does not add to the count of samples: the
\* accumulator was reset by an event, or rendering is suspended.
Disturbed ==
    /\ mainst.pc = "render"
    /\ mainst.start = "ok"
    /\ (mainst.st.accum = 0 /\ mainst.renders > 0) \/ Suspended
\* The loop ends on the sample count only, and with exactly max_samples render
\* calls summed into the image since it was last cleared.
StopsAtCount ==
    (mainst.pc = "check" /\ mainst'.pc = "save") =>
        mainst.max_samples > 0 /\ mainst.samples = mainst.max_samples
\* No iteration begins once the count is reached.
NoIterationPastCount ==
    (mainst.pc = "render" /\ mainst.start = "ok" /\ mainst.max_samples > 0) =>
        mainst.total_frames < mainst.max_samples

\* C12 as stated: in a run without time limit and quit event, --samples N > 0
\* makes the loop stop eventually, exactly when N render calls were made since
\* the last reset, and --samples 0 never lets the sample count stop the loop.
C12_SamplesStopTheLoop ==
    /\ [](mainst.start = "ok" /\ mainst.cli_samples > 0 => <>Stopped)
    /\ [][StopsAtCount /\ (mainst'.pc = "save" => mainst.samples = mainst.cli_samples)]_vars
    /\ [](mainst.start = "ok" /\ mainst.cli_samples = 0 => ~Stopped)
\* C12 amended: max_samples is N, or 4 for --samples 0 in the build without
\* GUI.  If from some point on no iteration is disturbed (no accumulator reset
\* by an event, rendering not suspended), the loop stops unless max_samples is
\* 0; it stops exactly when max_samples render calls were made since the image
\* was last cleared, and never when max_samples is 0.
C12_SamplesStopUndisturbedLoop ==
    /\ (<>[]~Disturbed) => <>(Stopped \/ Unlimited)
    /\ [][StopsAtCount]_vars
    /\ [](NoIterationPastCount)
    /\ [](Unlimited => ~Stopped)
C12_Witness ==
    /\ mainst.cyclic
    /\ mainst.pc = "save"
    /\ mainst.gui
    /\ mainst.max_samples = 2
    /\ mainst.samples = 2
    /\ mainst.renders >= 3

\* -------------------------------------------- properties (photon mapper)
PpmRendered == rend.kind = "ppm" /\ rend.calls >= 1

PtAtVertex == rend.kind = "pt" /\ rend.v.hit
PhAtVertex == rend.kind = "photons" /\ rend.v.hit

\* the emission the loop iteration added for a hit on the front of an emitter
EmissionAt(v) == IF v.emitter /\ v.entering THEN RMul(v.throughput, EmitterIntensity) ELSE RZero

\* C14: in path_trace the light sample of next event estimation contributes
\* only at a vertex whose BSDF is not Specular and only when the scene has a
\* light; at a Specular vertex, and in a scene without lights, the colour
\* after the iteration is the colour before it plus the emission of an
\* emitter hit.
C14_NeeOnlyAtNonSpecular ==
    PtAtVertex =>
        /\ rend.v.direct # RZero =>
               (rend.v.bsdf \in {"Diffuse", "Glossy"} /\ rend.num_lights > 0)
        /\ (rend.v.bsdf \in {"Specular", "none"} \/ rend.num_lights = 0) =>
               rend.color = RAdd(rend.v.before, EmissionAt(rend.v))
        /\ ~(rend.v.emitter /\ rend.v.entering) /\ rend.v.bsdf \in {"Specular", "none"} =>
               rend.color = rend.v.before

\* an emitter seen through a mirror, after light was gathered at a diffuse
\* vertex, in a scene with lights
C14_Witness ==
    /\ PtAtVertex
    /\ rend.num_lights = 2
    /\ rend.v.bsdf = "Specular"
    /\ rend.v.from.specular
    /\ rend.v.before # RZero
    /\ rend.color # rend.v.before

\* C15: in trace_photons, at every vertex of the light path that has a BSDF a
\* photon holding the throughput at that vertex is stored exactly when the
\* BSDF is not Specular, and no light is sampled (sample_direct) at the vertex.
C15_PhotonStoredIffNotSpecular ==
    (PhAtVertex /\ rend.v.bsdf # "none") =>
        /\ (\E i \in 1..Len(rend.photons) :
                rend.photons[i] = Photon(rend.v.throughput, rend.v.at))
               <=> rend.v.bsdf # "Specular"
        /\ ~rend.v.lit

\* C16: a BSDF sample whose pdf is not positive or whose direction is on the
\* wrong side of the geometric surface comes back with pdf = 0 and colour = 0,
\* and path_trace and trace_photons end the path at that vertex.
C16_DegenerateSampleEndsPath ==
    ((PtAtVertex \/ PhAtVertex) /\ rend.v.sampled /\ rend.v.degenerate) =>
        /\ rend.v.sample = [pdf |-> RZero, color |-> RZero]
        /\ rend.pc = "done"
        /\ rend.v.ended = "pdf"

\* C17: in path_trace the emission added for an emitter hit is weighted by
\* bsdfPdf / (bsdfPdf + lightPdf) when the previous vertex was not specular,
\* bsdfPdf being the pdf of the BSDF sample that led to the hit and lightPdf a
\* pdf of the light sampling; it has full weight for a primary ray and after a
\* specular bounce.
C17_EmissionMisWeighted ==
    (PtAtVertex /\ rend.v.emitter /\ rend.v.entering) =>
        \E w \in (IF rend.v.from.primary \/ rend.v.from.specular THEN {ROne}
                  ELSE {RDiv(rend.v.from.pdf, RAdd(rend.v.from.pdf, lp)) : lp \in LightPdfs}) :
            rend.color = RAdd(RAdd(rend.v.before, RMul(EmissionAt(rend.v), w)), rend.v.direct)

\* ------------------------------------------- properties (DiffuseBsdf)
\* C18: cosine_hemisphere_pdf(c) is c / pi, so the pdf DiffuseBsdf::pdf gives
\* for a direction drawn by DiffuseBsdf::sample is the pdf sample() returned,
\* and the direction is in the shading frame: its cosine with the shading
\* normal is sqrt(1 - u).
C18_DiffusePdfMatchesSample ==
    (rend.kind = "diffuse" /\ rend.pc = "evaluated") =>
        /\ rend.pdf = cosine_hemisphere_pdf_over_pi(Max2(Dot(rend.sample.in, rend.coords.n), 0))
        /\ rend.pdf = rend.sample.pdf
        /\ Dot(rend.sample.in, rend.coords.n) = Sqrtf(DirUnit * DirUnit - rend.u)

\* ------------------------------------- properties (traversal, indices)
\* C19: traverse reads only nodes below node_count() (each iteration reads
\* nodes[top] and nodes[top + 1]), the prim_ids range of every leaf lies inside
\* prim_ids, and in a scene of one triangle, whose root is a leaf, a ray
\* through the triangle comes back with hit.tri = 0.
C19_TraverseReadsInBounds ==
    /\ trav.pc = "loop" => (trav.top >= 0 /\ trav.top + 1 < num_nodes)
    /\ bphase = "ready" =>
           \A i \in 0..(num_nodes - 1) :
               is_leaf(nodes[i]) =>
                   (nodes[i].child >= 0 /\ nodes[i].child + nodes[i].num <= Len(prims[1]))
    /\ (trav.pc \in {"closest_done", "done"} /\ NumTris = 1 /\ BruteForce.tri = 0) =>
           hit.tri = 0

LeafSlots ==
    UNION {nodes[i].child..(nodes[i].child + nodes[i].num - 1) : i \in ReachableLeaves}
\* h.tri is -1 or prim_ids[j] for a leaf slot j whose triangle tris[j] the ray
\* hits inside (tmin, tmax).
IsRemapped(h) ==
    \/ h.tri = -1
    \/ \E j \in LeafSlots :
           /\ intersect_ray_tri(ray, Tris(j), ray.tmax).hit
           /\ h.tri = At(prims[1], j)
\* C21: on return from traverse, in the closest-hit and in the any-hit mode,
\* hit.tri is -1 or the source triangle prim_ids[j] of a leaf slot j whose
\* triangle tris[j] the ray hit (trees with an inner root; the root leaf is the
\* case of C19).
C21_HitTriIsSourceTriangle ==
    num_nodes > 1 =>
        /\ trav.pc \in {"closest_done", "done"} => IsRemapped(hit)
        /\ trav.pc = "done" => IsRemapped(hit_any)

\* ----------------------------------------------- properties (pre_split)
\* The iteration of try_split that triangle ref runs next pops its stack:
\* the stack shrinks and index i of its top entry is written.
PopsPiece(ref) == Len(stacks'[ref]) < Len(stacks[ref])
TopPiece(ref) == stacks[ref][Len(stacks[ref])]
\* The points (a * v0 + b * v1 + c * v2) / 4 of a triangle, a + b + c = 4.
GridOf(tri) ==
    {<<(a * tri[1][1] + b * tri[2][1] + (4 - a - b) * tri[3][1]) \div 4,
       (a * tri[1][2] + b * tri[2][2] + (4 - a - b) * tri[3][2]) \div 4,
       (a * tri[1][3] + b * tri[2][3] + (4 - a - b) * tri[3][3]) \div 4>> :
        <<a, b>> \in {ab \in (0..4) \X (0..4) : ab[1] + ab[2] <= 4}}
\* Twice the vector area of a triangle.
VectorArea(tri) == Cross(VSub(tri[2], tri[1]), VSub(tri[3], tri[1]))
RECURSIVE StackArea(_)
StackArea(st) ==
    IF st = <<>> THEN <<0, 0, 0>>
    ELSE VAdd(VectorArea(st[Len(st)].tri), StackArea(SubSeq(st, 1, Len(st) - 1)))
\* The references written so far that name source triangle ref.
\* Index j has been written (the three arrays are written together).
Written(j) == bboxes[j] # Unset
PiecesOf(ref) == {j \in DOMAIN refs : Written(j) /\ refs[j] = ref}

\* What one iteration of try_split for triangle ref keeps: an index is written
\* once, below max_refs, with the source triangle, and with a box that holds
\* the piece; a split replaces the top piece by two pieces of the same total
\* area, on a stack of fewer than stack_size entries.
TrySplitKeeps(ref) ==
    /\ Len(stacks'[ref]) <= stack_size
    /\ IF PopsPiece(ref)
       THEN /\ TopPiece(ref).i < MaxRefs
            /\ ~Written(TopPiece(ref).i)
            /\ refs'[TopPiece(ref).i] = ref
            /\ bboxes'[TopPiece(ref).i] = TriBBox(TopPiece(ref).tri)
            /\ \A j \in DOMAIN refs : j # TopPiece(ref).i => bboxes'[j] = bboxes[j]
       ELSE /\ StackArea(stacks'[ref]) = StackArea(stacks[ref])
            /\ bboxes' = bboxes
PreSplitStepKeeps ==
    \A ref \in 0..(NumTris - 1) : stacks'[ref] # stacks[ref] => TrySplitKeeps(ref)
\* What pre_split hands to the builder: the count is between num_tris and
\* max_refs, every index below it is written, and the boxes of the pieces of
\* a triangle hold every grid point of the triangle.
PreSplitResult ==
    /\ NumTris <= NumRefs /\ NumRefs <= MaxRefs
    /\ \A j \in 0..(NumRefs - 1) :
           j \in DOMAIN refs /\ Written(j) /\ refs[j] \in 0..(NumTris - 1)
    /\ \A j \in DOMAIN refs : j >= NumRefs => ~Written(j)
    /\ \A ref \in 0..(NumTris - 1) :
           \A p \in GridOf(SrcTri(ref)) :
               \E j \in PiecesOf(ref) : Contains(bboxes[j], PointBBox(p))

\* C25: under every interleaving of the threads of pre_split the count returned
\* is between num_tris and max_refs = floor(1.5 * num_tris), every reference
\* below it is written exactly once and names its source triangle, no index of
\* max_refs or more is written, the stack of try_split never has more than
\* stack_size entries, and the pieces of a triangle cover the triangle.
PreSplitKeeps ==
    /\ bphase = "presplit" => PreSplitStepKeeps
    /\ (bphase = "presplit" /\ bphase' = "build") => PreSplitResult
C25_PreSplitWritesOnce == [][PreSplitKeeps]_vars
\* pre_split has returned after two triangles were split and a thread drew
\* an index at or above max_refs.
C25_Witness ==
    /\ bphase = "build"
    /\ num_refs > MaxRefs
    /\ Cardinality({ref \in 0..(NumTris - 1) : Cardinality(PiecesOf(ref)) >= 2}) >= 2

\* ------------------------------------------------ properties (optimize)
\* The number of nodes below node i, counted along the child links.
RECURSIVE TreeSize(_)
TreeSize(i) ==
    IF is_leaf(nodes[i]) THEN 1
    ELSE 1 + TreeSize(nodes[i].child) + TreeSize(nodes[i].child + 1)
\* The leaves below a node n of the node array ns, as <<first_prim, num_prims>>.
RECURSIVE LeavesBelow(_, _)
LeavesBelow(ns, n) ==
    IF is_leaf(n) THEN {<<n.child, n.num>>}
    ELSE LeavesBelow(ns, ns[n.child]) \cup LeavesBelow(ns, ns[n.child + 1])
\* The node array is a binary tree rooted at index 0 that uses every index
\* below num_nodes once, and parents matches the child links.
IsWholeTree ==
    /\ ReachableFrom(0) = 0..(num_nodes - 1)
    /\ TreeSize(0) = num_nodes
    /\ parents[0] = 0
    /\ \A i \in 0..(num_nodes - 1) :
           ~is_leaf(nodes[i]) =>
               parents[nodes[i].child] = i /\ parents[nodes[i].child + 1] = i
\* The order reorder_nodes leaves: every child behind its parent.
ChildrenFollowParents ==
    \A i \in 0..(num_nodes - 1) : ~is_leaf(nodes[i]) => nodes[i].child > i
\* The positions find_reinsertion can return are none of the two freed slots.
AvoidsFreedSlots ==
    \A pos \in find_reinsertion(opt.node) : pos # opt.free /\ pos # opt.free + 1

\* C26: a detach followed by its reinsertion leaves a binary tree rooted at
\* index 0 with the same leaves and the same node count, and parents matches
\* the child links; the reinsertion position is never a freed slot; after
\* reorder_nodes the tree uses the indices 0 .. num_nodes - 1 once each and
\* every child has a greater index than its parent.
OptimizeKeepsTree ==
    /\ (opt.pc = "idle" /\ opt'.pc = "iter") => IsWholeTree'
    /\ (opt.pc = "remove" /\ opt'.pc = "reinsert") =>
           /\ LeavesBelow(nodes', nodes'[0]) \cup LeavesBelow(nodes', opt'.node)
                  = LeavesBelow(nodes, nodes[0])
           /\ LeavesBelow(nodes', nodes'[0]) \cap LeavesBelow(nodes', opt'.node) = {}
           /\ AvoidsFreedSlots'
    /\ (opt.pc = "reinsert" /\ opt'.pc = "remove") =>
           /\ LeavesBelow(nodes', nodes'[0])
                  = LeavesBelow(nodes, nodes[0]) \cup LeavesBelow(nodes, opt.node)
           /\ IsWholeTree'
    /\ (opt.pc = "remove" /\ opt'.pc = "iter") =>
           /\ LeavesBelow(nodes', nodes'[0]) = LeavesBelow(nodes, nodes[0])
           /\ IsWholeTree'
           /\ ChildrenFollowParents'
C26_OptimizeKeepsTree == [][OptimizeKeepsTree]_vars
\* A detached node for which the search returns a position that is not the
\* place the node was taken from.
C26_Witness ==
    /\ opt.pc = "reinsert"
    /\ \E pos \in find_reinsertion(opt.node) : pos # parents[opt.free]

\* ------------------------------------------------ properties (builder)
\* The references of a[from .. to-1].
RangeRefs(a, from, to) == {At(a, i) : i \in from..(to - 1)}
\* a[from .. to-1] is sorted by the centroid on one axis, ties in reference
\* order.
SortedOnAxis(a, from, to, axis) ==
    \A i, j \in from..(to - 1) :
        i < j => \/ centers[At(a, i)][axis] < centers[At(a, j)][axis]
                 \/ /\ centers[At(a, i)][axis] = centers[At(a, j)][axis]
                    /\ At(a, i) < At(a, j)
\* The three axis arrays p hold the same references in [from, to), each sorted
\* by its own axis.
RangeConsistent(p, from, to) ==
    /\ \A x \in 2..3 : RangeRefs(p[x], from, to) = RangeRefs(p[1], from, to)
    /\ \A x \in 1..3 : SortedOnAxis(p[x], from, to, x)
\* The value std::stable_partition returns, as an index into a: the first
\* position of the right side.
PartitionPoint(a, begin, end, axis, split_pos, split_ref) ==
    begin + Cardinality({i \in begin..(end - 1) :
                             IsOnLeftSide(At(a, i), axis, split_pos, split_ref)})
\* The split the builder call at the head of bstack makes.
SplitNode == nodes[Head(bstack)]
SplitBegin == SplitNode.child
SplitEnd == SplitNode.child + SplitNode.num
SplitChosen == BestSplit(SplitBegin, SplitEnd)
SplitRef == At(prims[SplitChosen.axis], SplitChosen.split - 1)
\* n1 and n2 of the builder call at the head of bstack.
SplitN(k) ==
    PartitionPoint(prims[((SplitChosen.axis + k - 1) % 3) + 1], SplitBegin, SplitEnd,
                   SplitChosen.axis, centers[SplitRef][SplitChosen.axis], SplitRef)
\* The builder call at the head of bstack splits its node.
IsSplitStep == bphase = "build" /\ num_nodes' = num_nodes + 2

\* C22: at every split of a node with range [begin, end) the chosen position
\* lies strictly between begin and end, both stable partitions return it
\* (n1 = n2 = min_split), and afterwards the three axis arrays hold the same
\* references in [begin, min_split) and the same in [min_split, end), each
\* still sorted by its own axis with ties in reference order.
SplitKeepsAxesConsistent ==
    IsSplitStep =>
        /\ SplitBegin < SplitChosen.split /\ SplitChosen.split < SplitEnd
        /\ SplitN(1) = SplitChosen.split
        /\ SplitN(2) = SplitChosen.split
        /\ RangeConsistent(prims', SplitBegin, SplitChosen.split)
        /\ RangeConsistent(prims', SplitChosen.split, SplitEnd)
C22_SplitKeepsAxesConsistent == [][SplitKeepsAxesConsistent]_vars
\* A split was made between two references of equal centroid on the split
\* axis: some inner node has the last reference of its left child and the first
\* of its right child at the same position on its axis.
TieAcrossSplit(i) ==
    LET axis == 1 - nodes[i].num
        left == nodes[nodes[i].child]
        right == nodes[nodes[i].child + 1]
    IN /\ nodes[i].num <= 0
       /\ left # Unset /\ right # Unset
       /\ left.num > 0 /\ right.num > 0
       /\ centers[At(prims[axis], right.child - 1)][axis]
            = centers[At(prims[axis], right.child)][axis]
C22_Witness ==
    /\ bphase = "build"
    /\ \E i \in 0..(num_nodes - 1) : nodes[i] # Unset /\ TieAcrossSplit(i)

\* ------------------------------------------ properties (builder tasks)
\* The nodes that have been split, and the nodes whose build call holds a
\* pair of child slots it has not yet linked.
InnerNodes == {i \in DOMAIN nodes : nodes[i] # Unset /\ nodes[i].num <= 0}
LinkingTasks == {t \in TaskIds : btasks.run[t].pc = "link"}
\* The first child slots handed out by the atomic capture, one entry per
\* split: <<node split, slot>>.
ChildSlots ==
    {<<i, nodes[i].child>> : i \in InnerNodes}
        \cup {<<Head(btasks.run[t].stack), btasks.run[t].c>> : t \in LinkingTasks}

\* C23: under every interleaving of the builder tasks each split gets a pair
\* of child slots (c, c + 1) that no other split gets, every slot handed out is
\* below the 2N + 1 nodes allocated for N references, and when the build is
\* over node_count is 1 + 2 * (number of inner nodes).
C23_ChildSlotsDistinct ==
    btasks # BTasksIdle =>
        /\ \A a, b \in ChildSlots :
               a # b => (a[1] # b[1] /\ (a[2] + 1 < b[2] \/ b[2] + 1 < a[2]))
        /\ \A a \in ChildSlots : a[2] >= 1 /\ a[2] + 1 < 2 * NumRefs + 1
        /\ bphase = "fix" => num_nodes = 1 + 2 * Cardinality(InnerNodes)
\* Two tasks hold freshly captured slots at the same time.
C23_Witness ==
    /\ bphase = "build"
    /\ Cardinality(LinkingTasks) >= 2

\* The references below node i.
RECURSIVE RefCount(_)
RefCount(i) ==
    IF nodes[i].num > 0 THEN nodes[i].num
    ELSE RefCount(nodes[i].child) + RefCount(nodes[i].child + 1)
\* The range [first_prim, first_prim + num_prims) of a node not yet split.
NodeRange(i) == nodes[i].child..(nodes[i].child + nodes[i].num - 1)
\* The child of inner node i that build(i) passed to build(biggest_node), and
\* the other one.
BiggestChild(i) ==
    IF RefCount(nodes[i].child + 1) >= RefCount(nodes[i].child)
    THEN nodes[i].child + 1 ELSE nodes[i].child
SmallestChild(i) ==
    IF RefCount(nodes[i].child + 1) < RefCount(nodes[i].child)
    THEN nodes[i].child + 1 ELSE nodes[i].child
\* btasks.calls[i] lists the tasks that entered build(i); a spawned task is
\* named after the node it was spawned for.
BuiltOnceBy(i, t) == btasks.calls[i] = <<t>>

\* C24: every node is built at most once, and exactly once when the build is
\* over; the bigger child of a split is built by the task that made the split,
\* the smaller one by a task spawned for it iff it has more than the threshold
\* of references, else by the same task; the ranges of the nodes that
\* different tasks still have to build are disjoint; and the node array is cut
\* only when every task has finished.
C24_ChildrenBuiltOnce ==
    btasks # BTasksIdle =>
        /\ \A i \in DOMAIN btasks.calls : Len(btasks.calls[i]) <= 1
        /\ \A t, u \in TaskIds :
               t # u =>
                   \A i \in {btasks.run[t].stack[k] : k \in 1..Len(btasks.run[t].stack)} :
                       \A j \in {btasks.run[u].stack[k] : k \in 1..Len(btasks.run[u].stack)} :
                           NodeRange(i) \cap NodeRange(j) = {}
        /\ bphase = "fix" =>
               /\ \A t \in TaskIds : TaskDone(t)
               /\ \A i \in 0..(num_nodes - 1) : Len(btasks.calls[i]) = 1
               /\ \A i \in InnerNodes :
                      /\ BuiltOnceBy(BiggestChild(i), btasks.calls[i][1])
                      /\ IF RefCount(SmallestChild(i)) > TaskThreshold
                         THEN BuiltOnceBy(SmallestChild(i), SmallestChild(i))
                         ELSE BuiltOnceBy(SmallestChild(i), btasks.calls[i][1])
\* The build is over, a task was spawned, and some smaller child was built
\* by the task that made the split.
C24_Witness ==
    /\ bphase = "fix"
    /\ btasks # BTasksIdle
    /\ Cardinality(TaskIds) >= 2
    /\ \E i \in InnerNodes :
           RefCount(SmallestChild(i)) <= TaskThreshold /\ nodes[i].child \notin TaskIds
                /\ (nodes[i].child + 1) \notin TaskIds

\* ------------------------------------------- properties (trace_photons)
\* the contribution of the path after the vertex v, before any roulette
ContribAfter(v) == RMul(v.throughput, RDiv(v.sample.color, v.sample.pdf))

\* C30: in trace_photons, at every vertex of index greater than 2 that draws a
\* valid sample and leaves a positive contribution, whatever its BSDF type, the path is either ended by the
\* roulette or goes on with its contribution divided by
\* q = min(0.95, luma(contrib)); at the vertices of index 0 to 2 the roulette
\* neither ends the path nor rescales the contribution.
C30_RouletteAboveIndexTwo ==
    (rend.kind = "photons" /\ rend.v.hit /\ rend.v.sampled
        /\ RLess(RZero, rend.v.sample.pdf)
        /\ RLess(RZero, ContribAfter(rend.v))) =>
        IF rend.v.at > 2
        THEN \/ rend.v.ended = "roulette"
             \/ rend.throughput =
                    RDiv(ContribAfter(rend.v), RMin(Rat(19, 20), ContribAfter(rend.v)))
        ELSE /\ rend.v.ended # "roulette"
             /\ rend.throughput = ContribAfter(rend.v)

\* ------------------------------------------ properties (trace_eye_path)
EyeAtVertex == rend.kind = "eye" /\ rend.v.hit

\* C29: in trace_eye_path a path ends only on a miss, on a material without
\* BSDF, on a sample with pdf <= 0, after 10 vertices or with the gather,
\* never by a random draw at a Specular vertex (stated for the vertices whose
\* sampled direction is valid); at the first vertex whose BSDF
\* is not Specular the path returns, having made the photon gather exactly
\* once, there, and no gather is made at any other vertex.
C29_SpecularChainIsDeterministic ==
    rend.kind = "eye" =>
        /\ (rend.pc = "done" /\ ~rend.v.degenerate) =>
               /\ rend.v.ended \in {"miss", "black body", "pdf", "length", "gather"}
               /\ rend.v.ended = "length" => rend.path_len = EyeMaxPathLen
        /\ (rend.v.hit /\ rend.v.bsdf \in {"Diffuse", "Glossy"}) =>
               (rend.pc = "done" /\ rend.v.ended = "gather" /\ rend.gathers = 1)
        /\ (rend.v.hit /\ rend.v.bsdf \in {"Specular", "none"}) => rend.gathers = 0
        /\ ~rend.v.hit => rend.gathers = 0

\* ------------------------------------------- properties (photon mapper pass)
PassMerged == \A t \in DOMAIN rend.task : rend.task[t].pc = "done"

\* the order of the phases, as a condition on a state
PassPhases ==
    rend.kind = "pass" =>
        /\ rend.grid.state = "building" => rend.pc = "build"
        /\ rend.pc \in {"build", "built", "eye"} => (PassMerged /\ rend.lock = LockFree)
        /\ (rend.pc = "eye" /\ rend.eye.started > 0) =>
               /\ rend.grid.state = "built"
               /\ rend.grid.iter = rend.iter
               /\ rend.grid.of = rend.photons
        /\ rend.pc = "eye" =>
               \A w \in Workers : rend.eye.work[w] # NoTile => rend.eye.started > 0
        /\ rend.pc # "idle" =>
               \A i \in 1..Len(rend.photons) : rend.photons[i].iter = rend.iter

\* from the call of photon_map.build to the end of the render call no step
\* writes the photon array, and from its return on none writes the hash grid
EyePassFrozen ==
    rend.kind = "pass" =>
        /\ rend.pc \in {"build", "built", "eye"} => rend'.photons = rend.photons
        /\ rend.pc \in {"built", "eye"} => rend'.grid = rend.grid

\* a render call starts with an empty photon array
ClearedAtStart ==
    (rend.kind = "pass" /\ rend.pc = "idle" /\ rend'.pc # "idle") => rend'.photons = <<>>

\* C27: within one render call of the photon mapper every task of the photon
\* pass has merged its buffer before the build of the hash grid starts, the
\* build has returned, over the photons of this call, before any tile of the
\* eye pass starts, no step of the eye pass writes the photon array or the
\* hash grid, and the photon array is emptied at the start of every call.
C27_PhasesInOrder == [][PassPhases' /\ EyePassFrozen /\ ClearedAtStart]_vars

\* The second render call: a worker runs a tile of the eye pass over the
\* photons that two tasks merged.
C27_Witness ==
    /\ rend.kind = "pass"
    /\ rend.iter = 2
    /\ rend.pc = "eye"
    /\ \E w \in Workers : rend.eye.work[w] # NoTile
    /\ \E t, u \in DOMAIN rend.task :
           t # u /\ rend.task[t].buffer # <<>> /\ rend.task[u].buffer # <<>>
    /\ rend.grid.of # <<>>

RECURSIVE PassTraced(_)
PassTraced(S) ==
    IF S = {} THEN 0
    ELSE LET t == CHOOSE x \in S : TRUE
         IN  rend.task[t].traced + PassTraced(S \ {t})
RECURSIVE PassBuffered(_)
PassBuffered(S) ==
    IF S = {} THEN 0
    ELSE LET t == CHOOSE x \in S : TRUE
         IN  Len(rend.task[t].buffer) + PassBuffered(S \ {t})

\* the buffer of task t stands in the photon array, whole and in one piece
MergedWhole(t) ==
    \E start \in 0..(Len(rend.photons) - Len(rend.task[t].buffer)) :
        SubSeq(rend.photons, start + 1, start + Len(rend.task[t].buffer))
            = rend.task[t].buffer
PassOver == rend.kind = "pass" /\ rend.pc \in {"build", "built", "eye"}

\* C28: under every interleaving of the tasks of the photon pass, no photon
\* stands twice in the shared array, the buffer of a task that has merged
\* stands in it whole and in one piece, and no photon of a task that has not;
\* when the pass is over, width * height light paths have been traced (in the
\* thread variant between 1 and batch_size by each batch) and the array holds
\* the photons of all buffers and nothing else.
C28_PhotonsMergedOnce ==
    (rend.kind = "pass" /\ rend.pc # "idle") =>
        /\ \A i, j \in 1..Len(rend.photons) :
               i # j => rend.photons[i] # rend.photons[j]
        /\ \A t \in DOMAIN rend.task :
               IF rend.task[t].pc = "done" THEN MergedWhole(t)
               ELSE \A i \in 1..Len(rend.photons) : rend.photons[i].by # t
        /\ PassOver =>
               /\ PassTraced(DOMAIN rend.task) = rend.width * rend.height
               /\ Len(rend.photons) = PassBuffered(DOMAIN rend.task)
               /\ rend.use_std_thread =>
                      \A t \in DOMAIN rend.task : rend.task[t].traced \in 1..batch_size

\* Thread variant, the pass is over: the last batch was partial, it stored
\* photons, and it merged before the first batch did.
C28_Witness ==
    /\ PassOver
    /\ rend.use_std_thread
    /\ rend.light_path_count % batch_size # 0
    /\ Cardinality(DOMAIN rend.task) >= 2
    /\ \E t \in DOMAIN rend.task :
           /\ rend.task[t].traced < batch_size
           /\ rend.task[t].buffer # <<>>
           /\ rend.photons[1].by = t
    /\ \E i \in 1..Len(rend.photons) : rend.photons[i].by = 0

====
